---- MODULE Spec2Model ----
(***************************************************************************)
(* Model of the retrieval-augmented QA experiment harness:                 *)
(* ExperimentConfig (src/src/experiments/config.py), ExperimentManager     *)
(* (src/src/experiments/experiment_manager.py) and main                    *)
(* (src/src/main.py).  Texts are TLA+ strings handled character by         *)
(* character; Python lists are sequences; Python None is the value None.   *)
(***************************************************************************)
EXTENDS Integers, Sequences, FiniteSets, TLC

VARIABLES
    pc,                 \* position of the process in main / ExperimentManager
    config,             \* self.config
    llm,                \* self.llm: the constructed text generator, or None
    reads,              \* the data files read so far (a set of paths)
    dataset,            \* self.dataset
    corpus,             \* self.corpus
    search_results,     \* self.search_results      (classic)
    retriever_results,  \* self.retriever_results   (mixed)
    random_results,     \* self.random_results      (mixed)
    main_results,       \* self.main_results        (multi_corpus)
    other_results,      \* self.other_results       (multi_corpus)
    results,            \* the list results of run_experiments
    documents,          \* the value of the last _get_documents call
    gen_calls,          \* the calls made to self.llm.generate, in order
    disk,               \* the input files: path -> content
    files,              \* the output files: path -> content written
    writes,             \* the filenames written by _save_results, in order
    error,              \* the exception that left the process, or None
    args,               \* the namespace parse_args returned, as main holds it
    raw_response,       \* the text llm.generate returned for the example
    calls,              \* the calls made to self._get_documents, in order
    retrieved_positions, \* the buckets of analyze_retrieval_performance
    stats               \* the lists of get_retrieval_statistics

vars == <<pc, config, llm, reads, dataset, corpus, search_results,
          retriever_results, random_results, main_results, other_results,
          results, documents, gen_calls, disk, files, writes, error, args,
          raw_response, calls, retrieved_positions, stats>>

\* A value that may be None (an Optional field, an attribute not yet set) is
\* a sequence of length at most one: None is empty, Some(v) holds v.
None == << >>
Some(v) == << v >>

(***************************************************************************)
(* Bounds of the model.                                                    *)
(***************************************************************************)
MaxCount == 2        \* largest document count / position of a configuration
MaxRank == 3         \* longest ranking of a classic retrieval table entry
MaxMixRank == 2      \* longest ranking of the first table (retriever / main)
MaxRandRank == 1     \* longest ranking of the second table (random / other)
MaxExamples == 5     \* longest dataset
MaxSaveEvery == 3    \* largest checkpoint interval
MaxCalls == 3        \* most _get_documents calls on one manager
MaxResults == 2      \* longest result list handed to the metrics

Min(a, b) == IF a <= b THEN a ELSE b
Max(a, b) == IF a >= b THEN a ELSE b

(***************************************************************************)
(* Python list semantics used by the assembler.                            *)
(***************************************************************************)
\* lst[:k]
PySliceTo(lst, k) ==
    IF k >= 0 THEN SubSeq(lst, 1, Min(k, Len(lst)))
              ELSE SubSeq(lst, 1, Max(Len(lst) + k, 0))

\* lst[k:]
PySliceFrom(lst, k) ==
    IF k >= 0 THEN SubSeq(lst, Min(k, Len(lst)) + 1, Len(lst))
              ELSE SubSeq(lst, Max(Len(lst) + k, 0) + 1, Len(lst))

\* lst[i] is defined (no IndexError): Python accepts -len .. len-1
PyHasIndex(lst, i) == (-Len(lst)) <= i /\ i < Len(lst)

\* lst[i], a negative i counting from the end
PyGetItem(lst, i) == IF i >= 0 THEN lst[i + 1] ELSE lst[Len(lst) + i + 1]

(***************************************************************************)
(* normalize_answers: normalize_answer and is_answer_in_text.              *)
(***************************************************************************)
UpperChars == "ABCDEFGHIJKLMNOPQRSTUVWXYZ"
LowerChars == "abcdefghijklmnopqrstuvwxyz"

Punctuation ==
    {"!", "\"", "#", "$", "%", "&", "'", "(", ")", "*", "+", ",", "-", ".",
     "/", ":", ";", "<", "=", ">", "?", "@", "[", "\\", "]", "^", "_", "{",
     "|", "}", "~"}

Whitespace == {" ", "\n", "\t"}

Articles == {"a", "an", "the"}

lower_char(c) ==
    IF \E i \in 1..Len(UpperChars) : SubSeq(UpperChars, i, i) = c
    THEN LET i == CHOOSE j \in 1..Len(UpperChars) : SubSeq(UpperChars, j, j) = c
         IN  SubSeq(LowerChars, i, i)
    ELSE c

RECURSIVE lower(_)
lower(text) ==
    IF text = "" THEN "" ELSE lower_char(Head(text)) \o lower(Tail(text))

RECURSIVE remove_punc(_)
remove_punc(text) ==
    IF text = "" THEN ""
    ELSE IF Head(text) \in Punctuation THEN remove_punc(Tail(text))
         ELSE Head(text) \o remove_punc(Tail(text))

\* text.split(): the maximal runs of non-whitespace characters, in order
RECURSIVE split(_, _)
split(text, word) ==
    IF text = "" THEN (IF word = "" THEN <<>> ELSE <<word>>)
    ELSE IF Head(text) \in Whitespace
         THEN (IF word = "" THEN <<>> ELSE <<word>>) \o split(Tail(text), "")
         ELSE split(Tail(text), word \o Head(text))

\* join of the words with single spaces
RECURSIVE join_space(_)
join_space(words) ==
    IF words = <<>> THEN ""
    ELSE IF Len(words) = 1 THEN words[1]
         ELSE words[1] \o " " \o join_space(Tail(words))

remove_articles_and_fix(text) ==
    join_space(SelectSeq(split(text, ""), LAMBDA w : w \notin Articles))

normalize_answer(s) == remove_articles_and_fix(remove_punc(lower(s)))

\* Python needle in haystack on strings
Contains(haystack, needle) ==
    \E i \in 1..(Len(haystack) - Len(needle) + 1) :
        SubSeq(haystack, i, i + Len(needle) - 1) = needle

is_answer_in_text(text, answers) ==
    \E k \in 1..Len(answers) :
        Contains(normalize_answer(text), normalize_answer(answers[k]))

(***************************************************************************)
(* ExperimentConfig: the dataclass fields with their defaults.             *)
(***************************************************************************)
DefaultConfig ==
    [llm_id |-> "meta-llama/Llama-2-7b-chat-hf",
     model_max_length |-> 4096,
     device |-> "cuda",
     batch_size |-> 32,
     experiment_type |-> "classic",
     load_full_corpus |-> TRUE,
     use_random |-> FALSE,
     use_adore |-> FALSE,
     use_bm25 |-> FALSE,
     gold_position |-> None,
     num_documents_in_context |-> 7,
     get_documents_without_answer |-> TRUE,
     num_retrieved_documents |-> None,
     num_random_documents |-> None,
     put_retrieved_first |-> FALSE,
     use_corpus_nonsense |-> FALSE,
     num_main_documents |-> None,
     num_other_documents |-> None,
     put_main_first |-> FALSE,
     use_test |-> FALSE,
     corpus_path |-> "data/corpus.json",
     train_data_path |-> "data/10k_train_dataset.json",
     test_data_path |-> "data/test_dataset.json",
     contriever_results_path |-> "data/contriever_search_results_at150.pkl",
     bm25_results_path |-> "data/bm25_test_search_results_at250.pkl",
     adore_results_path |-> "data/adore_search_results_at200.pkl",
     random_results_path |-> "data/10k_random_results_at60.pkl",
     nonsense_results_path |-> "data/nonsense_random_results.pkl",
     reddit_results_path |-> "data/reddit_test_random_results.pkl",
     output_dir |-> "experiment_results",
     save_every |-> 250]

(***************************************************************************)
(* Outcome of a call: a returned value or a raised exception.              *)
(***************************************************************************)
Return(v) == [ok |-> TRUE, value |-> v]
Raise(e) == [ok |-> FALSE, exc |-> e]

(***************************************************************************)
(* The context assembler.  self is the record of the manager's attributes  *)
(* (config, corpus and the retrieval tables); a table maps an example id   *)
(* to the pair <<indices, scores>>, whose first component the code reads.  *)
(***************************************************************************)
\* 'idx_gold_in_corpus' in example
HasGold(example) == "idx_gold_in_corpus" \in DOMAIN example

\* [self.corpus[int(doc_idx)] for doc_idx in doc_indices]
LookupAll(self, doc_indices) ==
    IF self.corpus = None THEN Raise("AttributeError")
    ELSE IF \E k \in 1..Len(doc_indices) :
                ~PyHasIndex(self.corpus[1], doc_indices[k])
    THEN Raise("IndexError")
    ELSE Return([k \in 1..Len(doc_indices) |->
                    PyGetItem(self.corpus[1], doc_indices[k])])

\* variant: the gold index is written over the entry at gold_position
splice_gold_overwrite(ranked, gold_position, example) ==
    IF gold_position # None
    THEN PySliceTo(ranked, gold_position[1])
             \o << example.idx_gold_in_corpus >>
             \o PySliceFrom(ranked, gold_position[1] + 1)
    ELSE ranked

\* retrieved_indices[:gold_position] + [gold_idx] + retrieved_indices[gold_position:]
splice_gold(ranked, gold_position, example) ==
    IF gold_position # None
    THEN PySliceTo(ranked, gold_position[1])
             \o << example.idx_gold_in_corpus >>
             \o PySliceFrom(ranked, gold_position[1])
    ELSE ranked

\* variant: the walk is not cut to num_documents_in_context
get_classic_documents_uncut(self, example) ==
    LET idx == example.example_id
        N == self.config.num_documents_in_context
        retrieved_indices ==
            splice_gold(self.search_results[1][idx][1],
                        self.config.gold_position, example)
        walked == LookupAll(self, retrieved_indices)
        keep(doc) == \/ ~self.config.get_documents_without_answer
                     \/ ~is_answer_in_text(doc.text, example.answers)
    IN  IF self.search_results = None THEN Raise("AttributeError")
        ELSE IF idx \notin DOMAIN self.search_results[1] THEN Raise("KeyError")
        ELSE IF self.config.gold_position # None /\ ~HasGold(example)
             THEN Raise("KeyError")
        ELSE IF ~walked.ok THEN walked
        ELSE Return(SelectSeq(walked.value, keep))

\* variant: the spliced gold document is kept whatever its text holds
get_classic_documents_goldkept(self, example) ==
    LET idx == example.example_id
        N == self.config.num_documents_in_context
        retrieved_indices ==
            splice_gold(self.search_results[1][idx][1],
                        self.config.gold_position, example)
        walked == LookupAll(self, PySliceTo(retrieved_indices, N))
        keep(doc) == \/ ~self.config.get_documents_without_answer
                     \/ /\ self.config.gold_position # None
                        /\ doc.full_corpus_idx = example.idx_gold_in_corpus
                     \/ ~is_answer_in_text(doc.text, example.answers)
    IN  IF self.search_results = None THEN Raise("AttributeError")
        ELSE IF idx \notin DOMAIN self.search_results[1] THEN Raise("KeyError")
        ELSE IF self.config.gold_position # None /\ ~HasGold(example)
             THEN Raise("KeyError")
        ELSE IF ~walked.ok THEN walked
        ELSE Return(PySliceTo(SelectSeq(walked.value, keep), N))

\* variant: the walk stops one entry early
get_classic_documents_short(self, example) ==
    LET idx == example.example_id
        N == self.config.num_documents_in_context
        retrieved_indices ==
            splice_gold(self.search_results[1][idx][1],
                        self.config.gold_position, example)
        walked == LookupAll(self, PySliceTo(retrieved_indices, N - 1))
        keep(doc) == \/ ~self.config.get_documents_without_answer
                     \/ ~is_answer_in_text(doc.text, example.answers)
    IN  IF self.search_results = None THEN Raise("AttributeError")
        ELSE IF idx \notin DOMAIN self.search_results[1] THEN Raise("KeyError")
        ELSE IF self.config.gold_position # None /\ ~HasGold(example)
             THEN Raise("KeyError")
        ELSE IF ~walked.ok THEN walked
        ELSE Return(PySliceTo(SelectSeq(walked.value, keep), N))

get_classic_documents(self, example) ==
    LET idx == example.example_id
        N == self.config.num_documents_in_context
        retrieved_indices ==
            splice_gold(self.search_results[1][idx][1],
                        self.config.gold_position, example)
        walked == LookupAll(self, PySliceTo(retrieved_indices, N))
        keep(doc) == \/ ~self.config.get_documents_without_answer
                     \/ ~is_answer_in_text(doc.text, example.answers)
    IN  IF self.search_results = None THEN Raise("AttributeError")
        ELSE IF idx \notin DOMAIN self.search_results[1] THEN Raise("KeyError")
        ELSE IF self.config.gold_position # None /\ ~HasGold(example)
             THEN Raise("KeyError")
        ELSE IF ~walked.ok THEN walked
        ELSE Return(PySliceTo(SelectSeq(walked.value, keep), N))

\* variant: the retrieved group always comes first
get_mixed_documents_retrfirst(self, example) ==
    LET idx == example.example_id
        retrieved_indices ==
            PySliceTo(self.retriever_results[1][idx][1],
                      self.config.num_retrieved_documents[1])
        random_indices ==
            PySliceTo(self.random_results[1][idx][1],
                      self.config.num_random_documents[1])
        doc_indices ==
            retrieved_indices \o random_indices
    IN  IF self.retriever_results = None \/ self.random_results = None
        THEN Raise("AttributeError")
        ELSE IF idx \notin DOMAIN self.retriever_results[1]
                \/ idx \notin DOMAIN self.random_results[1]
             THEN Raise("KeyError")
        ELSE LookupAll(self, doc_indices)

get_mixed_documents(self, example) ==
    LET idx == example.example_id
        retrieved_indices ==
            PySliceTo(self.retriever_results[1][idx][1],
                      self.config.num_retrieved_documents[1])
        random_indices ==
            PySliceTo(self.random_results[1][idx][1],
                      self.config.num_random_documents[1])
        doc_indices ==
            IF self.config.put_retrieved_first
            THEN retrieved_indices \o random_indices
            ELSE random_indices \o retrieved_indices
    IN  IF self.retriever_results = None \/ self.random_results = None
        THEN Raise("AttributeError")
        ELSE IF idx \notin DOMAIN self.retriever_results[1]
                \/ idx \notin DOMAIN self.random_results[1]
             THEN Raise("KeyError")
        ELSE LookupAll(self, doc_indices)

\* variant: the other-corpus group is cut by the main count
get_multi_corpus_documents_onecount(self, example) ==
    LET idx == example.example_id
        main_indices ==
            PySliceTo(self.main_results[1][idx][1],
                      self.config.num_main_documents[1])
        other_indices ==
            PySliceTo(self.other_results[1][idx][1],
                      self.config.num_main_documents[1])
        doc_indices ==
            IF self.config.put_main_first
            THEN main_indices \o other_indices
            ELSE other_indices \o main_indices
    IN  IF self.main_results = None \/ self.other_results = None
        THEN Raise("AttributeError")
        ELSE IF idx \notin DOMAIN self.main_results[1]
                \/ idx \notin DOMAIN self.other_results[1]
             THEN Raise("KeyError")
        ELSE LookupAll(self, doc_indices)

get_multi_corpus_documents(self, example) ==
    LET idx == example.example_id
        main_indices ==
            PySliceTo(self.main_results[1][idx][1],
                      self.config.num_main_documents[1])
        other_indices ==
            PySliceTo(self.other_results[1][idx][1],
                      self.config.num_other_documents[1])
        doc_indices ==
            IF self.config.put_main_first
            THEN main_indices \o other_indices
            ELSE other_indices \o main_indices
    IN  IF self.main_results = None \/ self.other_results = None
        THEN Raise("AttributeError")
        ELSE IF idx \notin DOMAIN self.main_results[1]
                \/ idx \notin DOMAIN self.other_results[1]
             THEN Raise("KeyError")
        ELSE LookupAll(self, doc_indices)

get_documents(self, example) ==
    IF self.config.experiment_type = "classic"
    THEN get_classic_documents(self, example)
    ELSE IF self.config.experiment_type = "mixed"
         THEN get_mixed_documents(self, example)
         ELSE get_multi_corpus_documents(self, example)

\* the attributes of the manager the assembler reads
Self ==
    [config |-> config, corpus |-> corpus,
     search_results |-> search_results,
     retriever_results |-> retriever_results,
     random_results |-> random_results,
     main_results |-> main_results,
     other_results |-> other_results]

(***************************************************************************)
(* ExperimentConfig.validate: raises ValueError or returns; the record     *)
(* carries the configuration as the call leaves it.                        *)
(***************************************************************************)
ExperimentTypes == {"classic", "mixed", "multi_corpus", "only_query"}

\* variant of validate: the counts of a multi_corpus configuration are not
\* checked
validate_nomulti(cfg) ==
    IF cfg.experiment_type \notin ExperimentTypes
    THEN [ok |-> FALSE, exc |-> "ValueError", config |-> cfg]
    ELSE IF /\ cfg.experiment_type = "mixed"
            /\ (cfg.num_retrieved_documents = None
                \/ cfg.num_random_documents = None)
         THEN [ok |-> FALSE, exc |-> "ValueError", config |-> cfg]
    ELSE [ok |-> TRUE, config |-> cfg]

\* variant of validate: the three tags of the comment on the field, without
\* only_query
validate_threetags(cfg) ==
    IF cfg.experiment_type \notin {"classic", "mixed", "multi_corpus"}
    THEN [ok |-> FALSE, exc |-> "ValueError", config |-> cfg]
    ELSE IF /\ cfg.experiment_type = "mixed"
            /\ (cfg.num_retrieved_documents = None
                \/ cfg.num_random_documents = None)
         THEN [ok |-> FALSE, exc |-> "ValueError", config |-> cfg]
    ELSE IF /\ cfg.experiment_type = "multi_corpus"
            /\ (cfg.num_main_documents = None
                \/ cfg.num_other_documents = None)
         THEN [ok |-> FALSE, exc |-> "ValueError", config |-> cfg]
    ELSE [ok |-> TRUE, config |-> cfg]

validate(cfg) ==
    IF cfg.experiment_type \notin ExperimentTypes
    THEN [ok |-> FALSE, exc |-> "ValueError", config |-> cfg]
    ELSE IF /\ cfg.experiment_type = "mixed"
            /\ (cfg.num_retrieved_documents = None
                \/ cfg.num_random_documents = None)
         THEN [ok |-> FALSE, exc |-> "ValueError", config |-> cfg]
    ELSE IF /\ cfg.experiment_type = "multi_corpus"
            /\ (cfg.num_main_documents = None
                \/ cfg.num_other_documents = None)
         THEN [ok |-> FALSE, exc |-> "ValueError", config |-> cfg]
    ELSE [ok |-> TRUE, config |-> cfg]

(***************************************************************************)
(* ExperimentManager._load_data: the files it reads, in order, each with   *)
(* the attribute the content is bound to.                                  *)
(***************************************************************************)
CorpusRandomSubsetPath == "data/processed/corpus_with_random_at60.json"
CorpusAdoreSubsetPath == "data/processed/corpus_with_adore_at200.json"
CorpusContrieverSubsetPath == "data/processed/corpus_with_contriever_at150.json"

\* variant of load_plan: in the classic family use_adore is tested before
\* use_random
load_plan_adorefirst(cfg) ==
    LET data_path == IF cfg.use_test THEN cfg.test_data_path
                                     ELSE cfg.train_data_path
        corpus_file ==
            IF cfg.load_full_corpus THEN cfg.corpus_path
            ELSE IF cfg.use_random THEN CorpusRandomSubsetPath
            ELSE IF cfg.use_adore THEN CorpusAdoreSubsetPath
            ELSE CorpusContrieverSubsetPath
        retriever_path == IF cfg.use_bm25 THEN cfg.bm25_results_path
                                          ELSE cfg.contriever_results_path
        tables ==
            IF cfg.experiment_type = "classic"
            THEN << [attr |-> "search_results",
                     path |-> IF cfg.use_adore THEN cfg.adore_results_path
                              ELSE IF cfg.use_random THEN cfg.random_results_path
                              ELSE cfg.contriever_results_path] >>
            ELSE IF cfg.experiment_type = "mixed"
            THEN << [attr |-> "retriever_results", path |-> retriever_path],
                    [attr |-> "random_results",
                     path |-> cfg.random_results_path] >>
            ELSE IF cfg.experiment_type = "multi_corpus"
            THEN << [attr |-> "main_results", path |-> retriever_path],
                    [attr |-> "other_results",
                     path |-> IF cfg.use_corpus_nonsense
                              THEN cfg.nonsense_results_path
                              ELSE cfg.reddit_results_path] >>
            ELSE << >>
    IN  << [attr |-> "dataset", path |-> data_path] >>
        \o (IF cfg.experiment_type # "only_query"
            THEN << [attr |-> "corpus", path |-> corpus_file] >> \o tables
            ELSE << >>)

\* _load_data: the files read, in order, and the attribute each one sets
load_plan(cfg) ==
    LET data_path == IF cfg.use_test THEN cfg.test_data_path
                                     ELSE cfg.train_data_path
        corpus_file ==
            IF cfg.load_full_corpus THEN cfg.corpus_path
            ELSE IF cfg.use_random THEN CorpusRandomSubsetPath
            ELSE IF cfg.use_adore THEN CorpusAdoreSubsetPath
            ELSE CorpusContrieverSubsetPath
        retriever_path == IF cfg.use_bm25 THEN cfg.bm25_results_path
                                          ELSE cfg.contriever_results_path
        tables ==
            IF cfg.experiment_type = "classic"
            THEN << [attr |-> "search_results",
                     path |-> IF cfg.use_random THEN cfg.random_results_path
                              ELSE IF cfg.use_adore THEN cfg.adore_results_path
                              ELSE cfg.contriever_results_path] >>
            ELSE IF cfg.experiment_type = "mixed"
            THEN << [attr |-> "retriever_results", path |-> retriever_path],
                    [attr |-> "random_results",
                     path |-> cfg.random_results_path] >>
            ELSE IF cfg.experiment_type = "multi_corpus"
            THEN << [attr |-> "main_results", path |-> retriever_path],
                    [attr |-> "other_results",
                     path |-> IF cfg.use_corpus_nonsense
                              THEN cfg.nonsense_results_path
                              ELSE cfg.reddit_results_path] >>
            ELSE << >>
    IN  << [attr |-> "dataset", path |-> data_path] >>
        \o (IF cfg.experiment_type # "only_query"
            THEN << [attr |-> "corpus", path |-> corpus_file] >> \o tables
            ELSE << >>)

\* the value an attribute has after the first j reads of the plan
Loaded(plan, j, d, attr, old) ==
    IF \E k \in 1..j : plan[k].attr = attr
    THEN Some(d[plan[CHOOSE k \in 1..j : plan[k].attr = attr].path])
    ELSE old

(***************************************************************************)
(* ExperimentManager._build_prompt.  docs is None or Some(list of document  *)
(* records), as run_experiments passes it.                                 *)
(***************************************************************************)
TaskInstruction ==
    "You are given a question and you MUST respond by EXTRACTING a short answer (max 5 tokens) from one of the provided documents. If none of the documents contain the answer, respond with NO-RES."

OnlyQueryInstruction ==
    "You are given a question and you MUST respond with a short answer (max 5 tokens) based on your internal knowledge. If you do not know the answer, please respond with NO-RES."

INSTRUCTION_KEY == "### Instruction:"
RESPONSE_KEY == "### Response:"
INTRO_BLURB ==
    "Below is an instruction that describes a task. Write a response that appropriately completes the request."

\* '\n'.join(documents), documents being the list of document dicts that
\* _get_documents returned: str.join raises TypeError on the first item that
\* is not a str, so only the empty list is joined.
join_documents(docs) ==
    IF docs = << >> THEN Return("") ELSE Raise("TypeError")

build_prompt(cfg, query, docs) ==
    LET truthy == docs # None /\ docs[1] # << >>
        documents_str == join_documents(docs[1])
        wrap(prompt) ==
            IF Contains(cfg.llm_id, "mpt")
            THEN INTRO_BLURB \o "\n" \o INSTRUCTION_KEY \o "\n" \o prompt
                     \o "\n" \o RESPONSE_KEY
            ELSE prompt
    IN  IF truthy
        THEN IF ~documents_str.ok THEN documents_str
             ELSE Return(wrap(TaskInstruction \o "\nDocuments:\n"
                                  \o documents_str.value \o "\nQuestion: "
                                  \o query \o "\nAnswer:"))
        ELSE Return(wrap(OnlyQueryInstruction \o "\nQuestion: " \o query
                             \o "\nAnswer:"))

(***************************************************************************)
(* Python string helpers of the run loop.                                  *)
(***************************************************************************)
\* s.find(sub): the 0-based index of the first occurrence, -1 if none
PyFind(str, sub) ==
    LET at == { i \in 1..(Len(str) - Len(sub) + 1) :
                    SubSeq(str, i, i + Len(sub) - 1) = sub }
    IN  IF at = {} THEN -1
        ELSE (CHOOSE i \in at : \A j \in at : i <= j) - 1

RECURSIVE lstrip(_)
lstrip(str) ==
    IF str = "" THEN ""
    ELSE IF Head(str) \in Whitespace THEN lstrip(Tail(str)) ELSE str

RECURSIVE rstrip(_)
rstrip(str) ==
    IF str = "" THEN ""
    ELSE IF SubSeq(str, Len(str), Len(str)) \in Whitespace
         THEN rstrip(SubSeq(str, 1, Len(str) - 1))
         ELSE str

strip(str) == rstrip(lstrip(str))

\* a % b with Python's sign convention (b # 0)
PyMod(a, b) == IF b > 0 THEN a % b ELSE 0 - ((0 - a) % (0 - b))

\* the generated answer cut out of the raw response
extract_answer(response) ==
    LET answer_start ==
            IF Contains(response, "Answer:")
            THEN PyFind(response, "Answer:") + Len("Answer:")
            ELSE PyFind(response, RESPONSE_KEY) + Len(RESPONSE_KEY)
    IN  strip(PySliceFrom(response, answer_start))

\* variant of ans_match_after_norm: the generated answer is looked up in the
\* gold answer
ans_match_after_norm_reversed(generated_answer, answers) ==
    \E k \in 1..Len(answers) :
        Contains(normalize_answer(answers[k]),
                 normalize_answer(generated_answer))

ans_match_after_norm(generated_answer, answers) ==
    \E k \in 1..Len(answers) :
        Contains(normalize_answer(generated_answer),
                 normalize_answer(answers[k]))

(***************************************************************************)
(* ExperimentManager._save_results: the path written for a suffix.         *)
(***************************************************************************)
\* str() of an int, and of an Optional[int]
Str(v) == ToString(v)
StrOpt(o) == IF o = None THEN "None" ELSE ToString(o[1])

results_filename(cfg, suffix) ==
    LET numdoc == "numdoc" \o Str(cfg.num_documents_in_context) \o "_"
        stem ==
            IF cfg.experiment_type = "classic"
            THEN numdoc
                 \o (IF cfg.gold_position # None
                     THEN "gold_at" \o StrOpt(cfg.gold_position) \o "_" ELSE "")
                 \o (IF cfg.use_random THEN "rand_" ELSE "")
                 \o (IF cfg.get_documents_without_answer
                     THEN "answerless_" ELSE "")
            ELSE IF cfg.experiment_type = "mixed"
            THEN numdoc
                 \o (IF cfg.put_retrieved_first
                     THEN "retr" \o StrOpt(cfg.num_retrieved_documents)
                          \o "_rand" \o StrOpt(cfg.num_random_documents) \o "_"
                     ELSE "rand" \o StrOpt(cfg.num_random_documents)
                          \o "_retr" \o StrOpt(cfg.num_retrieved_documents) \o "_")
            ELSE IF cfg.experiment_type = "multi_corpus"
            THEN numdoc
                 \o (IF cfg.put_main_first
                     THEN "main" \o StrOpt(cfg.num_main_documents)
                          \o "_other" \o StrOpt(cfg.num_other_documents) \o "_"
                     ELSE "other" \o StrOpt(cfg.num_other_documents)
                          \o "_main" \o StrOpt(cfg.num_main_documents) \o "_")
                 \o (IF cfg.use_corpus_nonsense THEN "nonsense_" ELSE "reddit_")
            ELSE "only_query_"
    IN  cfg.output_dir \o "/" \o stem \o "results_" \o suffix \o ".json"

\* the output files after _save_results(res, suffix)
save_results(cfg, fs, res, suffix) ==
    (results_filename(cfg, suffix) :> res) @@ fs

(***************************************************************************)
(* Data of the model: a corpus of three documents and the evaluation       *)
(* examples.  The first document contains the answer of q1, the second     *)
(* the answer of q2.                                                       *)
(***************************************************************************)
Corpus ==
    << [text |-> "It orbits the Moon.", title |-> "Orbit",
        full_corpus_idx |-> 0],
       [text |-> "Mars is red.", title |-> "Mars", full_corpus_idx |-> 1],
       [text |-> "Rain falls.", title |-> "Rain", full_corpus_idx |-> 2] >>

Example(id, question, answers) ==
    [example_id |-> id, question |-> question, answers |-> answers]

WithGold(example, gold) ==
    [f \in DOMAIN example \cup {"idx_gold_in_corpus"} |->
        IF f = "idx_gold_in_corpus" THEN gold ELSE example[f]]

Q1 == Example("q1", "What does it orbit?", <<"The Moon">>)
Q2 == Example("q2", "Which planet is red?", <<"Venus", "mars">>)

\* the counts and positions a configuration may hold (any int is accepted)
CountValues == {-1} \cup 0..MaxCount

\* the entries of a ranking: corpus indices, and the two kinds that are not
IndexValues == -1..Len(Corpus)

\* a ranking lists each entry once
Rankings(maxlen) ==
    { r \in UNION { [1..n -> IndexValues] : n \in 0..maxlen } :
        \A i, j \in DOMAIN r : i # j => r[i] # r[j] }

\* a retrieval table with one entry, <<indices, scores>>
TableOf(id, ranking) ==
    [i \in {id} |-> << ranking, [k \in 1..Len(ranking) |-> 0] >>]

(***************************************************************************)
(* The assembler on its own: the manager is constructed (configuration     *)
(* validated, data loaded) and _get_documents is applied to one example.   *)
(***************************************************************************)
AsmExamples ==
    {Q1, Q2} \cup { WithGold(e, g) : e \in {Q1, Q2}, g \in 0..(Len(Corpus) - 1) }

AsmClassicConfigs ==
    { [DefaultConfig EXCEPT !.experiment_type = "classic",
                            !.gold_position = gp,
                            !.num_documents_in_context = n,
                            !.get_documents_without_answer = f] :
        gp \in {None} \cup { Some(p) : p \in CountValues },
        n \in CountValues, f \in BOOLEAN }

AsmMixedConfigs ==
    { [DefaultConfig EXCEPT !.experiment_type = "mixed",
                            !.num_retrieved_documents = Some(nr),
                            !.num_random_documents = Some(nd),
                            !.put_retrieved_first = first,
                            !.num_documents_in_context = n ] :
        nr \in CountValues, nd \in CountValues, first \in BOOLEAN,
        n \in {0, MaxCount} }

AsmMultiCorpusConfigs ==
    { [DefaultConfig EXCEPT !.experiment_type = "multi_corpus",
                            !.num_main_documents = Some(nm),
                            !.num_other_documents = Some(no),
                            !.put_main_first = first,
                            !.num_documents_in_context = n ] :
        nm \in CountValues, no \in CountValues, first \in BOOLEAN,
        n \in {0, MaxCount} }

AsmInitCommon ==
    /\ pc = "Ready"
    /\ llm = Some([llm_id |-> config.llm_id, device |-> config.device,
                   quantization_bits |-> 4,
                   model_max_length |-> config.model_max_length])
    /\ reads = {}
    /\ corpus = Some(Corpus)
    /\ results = << >>
    /\ documents = None
    /\ gen_calls = << >>
    /\ disk = << >>
    /\ files = << >>
    /\ writes = << >>
    /\ error = None
    /\ args = None
    /\ raw_response = None
    /\ calls = << >>
    /\ retrieved_positions = None
    /\ stats = None

InitAsm ==
    /\ \/ /\ config \in AsmClassicConfigs
          /\ \E e \in AsmExamples, r \in Rankings(MaxRank) :
                /\ dataset = Some(<<e>>)
                /\ search_results = Some(TableOf(e.example_id, r))
          /\ retriever_results = None /\ random_results = None
          /\ main_results = None /\ other_results = None
       \/ /\ config \in AsmMixedConfigs
          /\ \E e \in {Q1}, r \in Rankings(MaxMixRank),
                d \in Rankings(MaxRandRank) :
                /\ dataset = Some(<<e>>)
                /\ retriever_results = Some(TableOf(e.example_id, r))
                /\ random_results = Some(TableOf(e.example_id, d))
          /\ search_results = None
          /\ main_results = None /\ other_results = None
       \/ /\ config \in AsmMultiCorpusConfigs
          /\ \E e \in {Q1}, r \in Rankings(MaxMixRank),
                d \in Rankings(MaxRandRank) :
                /\ dataset = Some(<<e>>)
                /\ main_results = Some(TableOf(e.example_id, r))
                /\ other_results = Some(TableOf(e.example_id, d))
          /\ search_results = None
          /\ retriever_results = None /\ random_results = None
    /\ AsmInitCommon

\* one _get_documents call: the example it was given, what it returned
call_record(example, returned) ==
    [example_id |-> example.example_id, returned |-> returned]

\* documents = self._get_documents(example)
GetDocuments ==
    /\ pc = "Ready"
    /\ documents' = Some(get_documents(Self, dataset[1][1]))
    /\ calls' = Append(calls, call_record(dataset[1][1], documents'[1]))
    /\ pc' = "Assembled"
    /\ UNCHANGED <<retrieved_positions, stats, args, raw_response>>
    /\ UNCHANGED <<config, llm, reads, dataset, corpus, search_results,
                   retriever_results, random_results, main_results,
                   other_results, results, gen_calls, disk, files, writes,
                   error>>

NextAsm == GetDocuments

SpecAsm == InitAsm /\ [][NextAsm]_vars

(***************************************************************************)
(* Repeated assembly: _get_documents is called several times, in any       *)
(* order, on the examples of a dataset of two.                             *)
(***************************************************************************)
CallsDatasets ==
    { << WithGold(Q1, g), WithGold(Q2, 0) >> : g \in {0, 1} }

CallsClassicConfigs ==
    { [DefaultConfig EXCEPT !.experiment_type = "classic",
                            !.gold_position = gp,
                            !.num_documents_in_context = n,
                            !.get_documents_without_answer = f] :
        gp \in {None, Some(0), Some(1)}, n \in {MaxCount}, f \in BOOLEAN }

CallsMixedConfigs ==
    { [DefaultConfig EXCEPT !.experiment_type = "mixed",
                            !.num_retrieved_documents = Some(nr),
                            !.num_random_documents = Some(nd),
                            !.put_retrieved_first = first] :
        nr \in {0, 1}, nd \in {0, 1}, first \in BOOLEAN }

CallsMultiCorpusConfigs ==
    { [DefaultConfig EXCEPT !.experiment_type = "multi_corpus",
                            !.num_main_documents = Some(nm),
                            !.num_other_documents = Some(no),
                            !.put_main_first = first] :
        nm \in {0, 1}, no \in {0, 1}, first \in BOOLEAN }

\* a retrieval table of the two examples: any ranking for the first one
CallsTable(data, ranking) ==
    TableOf(data[1].example_id, ranking) @@ TableOf(data[2].example_id, <<2, 0>>)

\* the random / other-corpus table of the two examples
CallsSecondTable(data) ==
    TableOf(data[1].example_id, <<1>>) @@ TableOf(data[2].example_id, <<0, 2>>)

InitCalls ==
    /\ \E data \in CallsDatasets, r \in Rankings(MaxMixRank) :
          /\ dataset = Some(data)
          /\ \/ /\ config \in CallsClassicConfigs
                /\ search_results = Some(CallsTable(data, r))
                /\ retriever_results = None /\ random_results = None
                /\ main_results = None /\ other_results = None
             \/ /\ config \in CallsMixedConfigs
                /\ Len(r) <= MaxRandRank
                /\ retriever_results = Some(CallsTable(data, r))
                /\ random_results = Some(CallsSecondTable(data))
                /\ search_results = None
                /\ main_results = None /\ other_results = None
             \/ /\ config \in CallsMultiCorpusConfigs
                /\ Len(r) <= MaxRandRank
                /\ main_results = Some(CallsTable(data, r))
                /\ other_results = Some(CallsSecondTable(data))
                /\ search_results = None
                /\ retriever_results = None /\ random_results = None
    /\ AsmInitCommon

\* variant of CallGetDocuments: the classic splice inserts the gold index
\* into the stored ranking (retrieved_indices.insert(gold_position, gold_idx))
CallGetDocuments_inplace ==
    /\ pc = "Ready"
    /\ Len(calls) < MaxCalls
    /\ \E i \in 1..Len(dataset[1]) :
          LET example == dataset[1][i]
              idx == example.example_id
          IN  /\ documents' = Some(get_documents(Self, example))
              /\ calls' = Append(calls, call_record(example, documents'[1]))
              /\ search_results' =
                     IF /\ config.experiment_type = "classic"
                        /\ config.gold_position # None
                     THEN Some([search_results[1] EXCEPT
                                   ![idx] = << splice_gold(@[1],
                                                           config.gold_position,
                                                           example),
                                               @[2] >>])
                     ELSE search_results
    /\ UNCHANGED <<retrieved_positions, stats, args, raw_response>>
    /\ UNCHANGED <<pc, config, llm, reads, dataset, corpus,
                   retriever_results, random_results, main_results,
                   other_results, results, gen_calls, disk, files, writes,
                   error>>

\* self._get_documents(example), for any example of the dataset
CallGetDocuments ==
    /\ pc = "Ready"
    /\ Len(calls) < MaxCalls
    /\ \E i \in 1..Len(dataset[1]) :
          LET example == dataset[1][i]
          IN  /\ documents' = Some(get_documents(Self, example))
              /\ calls' = Append(calls, call_record(example, documents'[1]))
    /\ UNCHANGED <<retrieved_positions, stats, args, raw_response>>
    /\ UNCHANGED <<pc, config, llm, reads, dataset, corpus, search_results,
                   retriever_results, random_results, main_results,
                   other_results, results, gen_calls, disk, files, writes,
                   error>>

NextCalls == CallGetDocuments

SpecCalls == InitCalls /\ [][NextCalls]_vars

(***************************************************************************)
(* The whole program: main constructs the manager (validate, text          *)
(* generator, data) and runs the experiment loop.                          *)
(***************************************************************************)
\* example i of the evaluation dataset, and its ranking in each table
MainExample(i) ==
    LET id == "q" \o ToString(i)
        e == IF i % 2 = 1
             THEN Example(id, "What does it orbit?", <<"The Moon">>)
             ELSE Example(id, "Which planet is red?", <<"Venus", "mars">>)
    IN  IF i % 3 = 0 THEN e ELSE WithGold(e, (i + 1) % 2)

MainDataset(n) == [i \in 1..n |-> MainExample(i)]

ContrieverRanking(i) ==
    CASE i = 1 -> <<0, 1>>
      [] i = 2 -> <<1, 2>>
      [] i = 3 -> << >>
      [] i = 4 -> <<3>>
      [] OTHER -> <<2, 0>>

MainTable(n, shift) ==
    [id \in { "q" \o ToString(i) : i \in 1..n } |->
        LET i == CHOOSE j \in 1..n : id = "q" \o ToString(j)
            r == ContrieverRanking(((i + shift - 1) % 5) + 1)
        IN  << r, [k \in 1..Len(r) |-> 0] >>]

\* the input files, for a dataset of n examples
Disk(n) ==
    LET c == DefaultConfig
    IN  (c.train_data_path :> MainDataset(n))
        @@ (c.test_data_path :> MainDataset(Min(n, 1)))
        @@ (c.corpus_path :> Corpus)
        @@ (CorpusRandomSubsetPath :> Corpus)
        @@ (CorpusAdoreSubsetPath :> Corpus)
        @@ (CorpusContrieverSubsetPath :> Corpus)
        @@ (c.contriever_results_path :> MainTable(n, 0))
        @@ (c.bm25_results_path :> MainTable(n, 1))
        @@ (c.adore_results_path :> MainTable(n, 2))
        @@ (c.random_results_path :> MainTable(n, 3))
        @@ (c.nonsense_results_path :> MainTable(n, 4))
        @@ (c.reddit_results_path :> MainTable(n, 2))

SaveEveryValues == {-2, 0} \cup 1..MaxSaveEvery

LlmIds == {DefaultConfig.llm_id, "mosaicml/mpt-7b-instruct"}

OptionalCounts == {None, Some(0), Some(1)}

BatchSizes == {1, 2}

\* the configurations main may hand to the manager
FamilyConfigs ==
    { [DefaultConfig EXCEPT !.experiment_type = t] : t \in {"only_query", "hybrid"} }
    \cup
    { [DefaultConfig EXCEPT !.experiment_type = "classic",
                            !.num_documents_in_context = n,
                            !.gold_position = gp,
                            !.get_documents_without_answer = f,
                            !.use_random = rnd[1], !.use_adore = rnd[2]] :
        n \in {0, 1}, gp \in {None, Some(0)}, f \in BOOLEAN,
        rnd \in BOOLEAN \X BOOLEAN }
    \cup
    { [DefaultConfig EXCEPT !.experiment_type = "mixed",
                            !.num_retrieved_documents = nr,
                            !.num_random_documents = nd,
                            !.put_retrieved_first = first,
                            !.use_bm25 = bm] :
        nr \in OptionalCounts, nd \in OptionalCounts,
        first \in BOOLEAN, bm \in BOOLEAN }
    \cup
    { [DefaultConfig EXCEPT !.experiment_type = "multi_corpus",
                            !.num_main_documents = nm,
                            !.num_other_documents = no,
                            !.put_main_first = first,
                            !.use_corpus_nonsense = ns] :
        nm \in OptionalCounts, no \in OptionalCounts,
        first \in BOOLEAN, ns \in BOOLEAN }

\* the configurations whose checkpoint interval and model id are varied
LifecycleConfigs ==
    { [DefaultConfig EXCEPT !.experiment_type = "only_query"],
      [DefaultConfig EXCEPT !.experiment_type = "classic",
                            !.num_documents_in_context = 0] }

MainConfigs ==
    { [c EXCEPT !.save_every = 1] : c \in FamilyConfigs }
    \cup
    { [c EXCEPT !.save_every = se, !.llm_id = id] :
        c \in LifecycleConfigs, se \in SaveEveryValues, id \in LlmIds }
    \cup
    { [c EXCEPT !.save_every = 1, !.batch_size = b] :
        c \in LifecycleConfigs, b \in BatchSizes }

\* main: the configuration is created, the manager is about to be built
Init ==
    /\ pc = "Initializing"
    /\ config \in MainConfigs
    /\ disk \in { Disk(n) : n \in 0..MaxExamples }
    /\ llm = None
    /\ reads = {}
    /\ dataset = None
    /\ corpus = None
    /\ search_results = None
    /\ retriever_results = None
    /\ random_results = None
    /\ main_results = None
    /\ other_results = None
    /\ results = << >>
    /\ documents = None
    /\ gen_calls = << >>
    /\ files = << >>
    /\ writes = << >>
    /\ error = None
    /\ args = None
    /\ raw_response = None
    /\ calls = << >>
    /\ retrieved_positions = None
    /\ stats = None

\* an exception leaves the process
Fail(exc) ==
    /\ pc' = "Failed"
    /\ error' = Some(exc)

\* variant of Validate: the text generator is constructed before the
\* configuration is validated
Validate_afterllm ==
    /\ pc = "Initializing"
    /\ llm' = Some([llm_id |-> config.llm_id, device |-> config.device,
                    quantization_bits |-> 4,
                    model_max_length |-> config.model_max_length])
    /\ LET v == validate(config)
       IN  /\ config' = v.config
           /\ IF v.ok THEN pc' = "Validated" /\ error' = error
                      ELSE Fail(v.exc)
    /\ UNCHANGED <<retrieved_positions, stats, args, raw_response, calls>>
    /\ UNCHANGED <<reads, dataset, corpus, search_results,
                   retriever_results, random_results, main_results,
                   other_results, results, documents, gen_calls, disk, files,
                   writes>>

\* ExperimentManager.__init__: self.config.validate()
Validate ==
    /\ pc = "Initializing"
    /\ LET v == validate(config)
       IN  /\ config' = v.config
           /\ IF v.ok THEN pc' = "Validated" /\ error' = error
                      ELSE Fail(v.exc)
    /\ UNCHANGED <<retrieved_positions, stats, args, raw_response, calls>>
    /\ UNCHANGED <<llm, reads, dataset, corpus, search_results,
                   retriever_results, random_results, main_results,
                   other_results, results, documents, gen_calls, disk, files,
                   writes>>

\* ExperimentManager.__init__: self.llm = LLM(...); loading the pretrained
\* model may fail
ConstructLLM ==
    /\ pc = "Validated"
    /\ \/ /\ llm' = Some([llm_id |-> config.llm_id, device |-> config.device,
                          quantization_bits |-> 4,
                          model_max_length |-> config.model_max_length])
          /\ pc' = "LoadingData"
          /\ error' = error
       \/ /\ Fail("OSError")
          /\ llm' = llm
    /\ UNCHANGED <<retrieved_positions, stats, args, raw_response, calls>>
    /\ UNCHANGED <<config, reads, dataset, corpus, search_results,
                   retriever_results, random_results, main_results,
                   other_results, results, documents, gen_calls, disk, files,
                   writes>>

\* ExperimentManager._load_data: the files of the plan are read in order;
\* a read may fail (missing or corrupt file), which ends the load
LoadData ==
    /\ pc = "LoadingData"
    /\ LET plan == load_plan(config)
       IN  \E j \in 0..Len(plan) :
             /\ reads' = reads \cup { plan[k].path : k \in 1..j }
             /\ dataset' = Loaded(plan, j, disk, "dataset", dataset)
             /\ corpus' = Loaded(plan, j, disk, "corpus", corpus)
             /\ search_results' =
                    Loaded(plan, j, disk, "search_results", search_results)
             /\ retriever_results' =
                    Loaded(plan, j, disk, "retriever_results", retriever_results)
             /\ random_results' =
                    Loaded(plan, j, disk, "random_results", random_results)
             /\ main_results' =
                    Loaded(plan, j, disk, "main_results", main_results)
             /\ other_results' =
                    Loaded(plan, j, disk, "other_results", other_results)
             /\ IF j = Len(plan) THEN pc' = "Ready" /\ error' = error
                                 ELSE Fail("IOError")
    /\ UNCHANGED <<retrieved_positions, stats, args, raw_response, calls>>
    /\ UNCHANGED <<config, llm, results, documents, gen_calls, disk, files,
                   writes>>

\* main: manager.run_experiments(); results = []
StartRun ==
    /\ pc = "Ready"
    /\ pc' = "Running"
    /\ results' = << >>
    /\ UNCHANGED <<retrieved_positions, stats, args, raw_response, calls>>
    /\ UNCHANGED <<config, llm, reads, dataset, corpus, search_results,
                   retriever_results, random_results, main_results,
                   other_results, documents, gen_calls, disk, files, writes,
                   error>>

\* what the text generator may give back for a prompt: the decoded sequence
\* (prompt and continuation), or a failure of the backend
Continuations == {" The Moon.", " NO-RES"}

LLMOutcomes(prompt) ==
    { Return(prompt \o c) : c \in Continuations } \cup {Raise("RuntimeError")}

MaxNewTokens == 15

\* variant of generate_call: the prompt is repeated to fill a batch of
\* batch_size prompts
generate_call_batched(cfg, prompt) ==
    [prompts |-> [k \in 1..cfg.batch_size |-> prompt],
     max_new_tokens |-> MaxNewTokens]

\* self.llm.generate([prompt], max_new_tokens=15)
generate_call(cfg, prompt) ==
    [prompts |-> <<prompt>>, max_new_tokens |-> MaxNewTokens]

\* variant of result_record: an only_query record lists the indices of an
\* empty context
result_record_indexed(cfg, example, docs, prompt, response) ==
    LET generated_answer == extract_answer(response)
        base ==
            [example_id |-> example.example_id,
             query |-> example.question,
             answers |-> example.answers,
             prompt |-> prompt,
             generated_answer |-> generated_answer,
             ans_match_after_norm |->
                 ans_match_after_norm(generated_answer, example.answers)]
        indices ==
            IF cfg.experiment_type = "only_query"
            THEN "document_indices" :> << >>
            ELSE "document_indices" :>
                     [k \in 1..Len(docs[1]) |-> docs[1][k].full_corpus_idx]
        gold ==
            IF cfg.experiment_type # "only_query" /\ HasGold(example)
            THEN "gold_document_idx" :> example.idx_gold_in_corpus
            ELSE << >>
        in_docs ==
            IF docs # None /\ docs[1] # << >>
            THEN "ans_in_documents" :>
                     (\E k \in 1..Len(docs[1]) :
                         is_answer_in_text(docs[1][k].text, example.answers))
            ELSE << >>
    IN  base @@ indices @@ gold @@ in_docs

\* variant of result_record: the record keeps the prompt in place of the
\* question
result_record_promptquery(cfg, example, docs, prompt, response) ==
    LET generated_answer == extract_answer(response)
        base ==
            [example_id |-> example.example_id,
             query |-> prompt,
             answers |-> example.answers,
             prompt |-> prompt,
             generated_answer |-> generated_answer,
             ans_match_after_norm |->
                 ans_match_after_norm(generated_answer, example.answers)]
        indices ==
            IF cfg.experiment_type = "only_query" THEN << >>
            ELSE "document_indices" :>
                     [k \in 1..Len(docs[1]) |-> docs[1][k].full_corpus_idx]
        gold ==
            IF cfg.experiment_type # "only_query" /\ HasGold(example)
            THEN "gold_document_idx" :> example.idx_gold_in_corpus
            ELSE << >>
        in_docs ==
            IF docs # None /\ docs[1] # << >>
            THEN "ans_in_documents" :>
                     (\E k \in 1..Len(docs[1]) :
                         is_answer_in_text(docs[1][k].text, example.answers))
            ELSE << >>
    IN  base @@ indices @@ gold @@ in_docs

\* the result record of one example
result_record(cfg, example, docs, prompt, response) ==
    LET generated_answer == extract_answer(response)
        base ==
            [example_id |-> example.example_id,
             query |-> example.question,
             answers |-> example.answers,
             prompt |-> prompt,
             generated_answer |-> generated_answer,
             ans_match_after_norm |->
                 ans_match_after_norm(generated_answer, example.answers)]
        indices ==
            IF cfg.experiment_type = "only_query" THEN << >>
            ELSE "document_indices" :>
                     [k \in 1..Len(docs[1]) |-> docs[1][k].full_corpus_idx]
        gold ==
            IF cfg.experiment_type # "only_query" /\ HasGold(example)
            THEN "gold_document_idx" :> example.idx_gold_in_corpus
            ELSE << >>
        in_docs ==
            IF docs # None /\ docs[1] # << >>
            THEN "ans_in_documents" :>
                     (\E k \in 1..Len(docs[1]) :
                         is_answer_in_text(docs[1][k].text, example.answers))
            ELSE << >>
    IN  base @@ indices @@ gold @@ in_docs


\* variant of Propagate: the records gathered so far are saved as the final
\* file on the way out
Propagate_saving(exc) ==
    /\ Fail(exc)
    /\ results' = results
    /\ files' = save_results(config, files, results, "final")
    /\ writes' = Append(writes, results_filename(config, "final"))

\* run_experiments has no try/except: an exception raised before the append
\* leaves the loop and the method, the local results list is dropped and no
\* _save_results call follows
Propagate(exc) ==
    /\ Fail(exc)
    /\ UNCHANGED <<results, files, writes>>

\* variant of LoadedDataKept: the classic splice inserts the gold index into
\* the stored ranking of the example of the iteration
LoadedDataKept_spliced ==
    /\ UNCHANGED <<dataset, corpus, retriever_results, random_results,
                   main_results, other_results>>
    /\ search_results' =
           LET example == dataset[1][Len(results) + 1]
               idx == example.example_id
           IN  IF /\ config.experiment_type = "classic"
                  /\ config.gold_position # None
                  /\ HasGold(example)
               THEN Some([search_results[1] EXCEPT
                             ![idx] = << splice_gold(@[1], config.gold_position,
                                                     example),
                                         @[2] >>])
               ELSE search_results

\* an iteration assigns no attribute of self and changes no object it reads:
\* the assembler works on new lists (slices, concatenation, append to a
\* local list), the prompt and the record are built from values read
LoadedDataKept ==
    UNCHANGED <<dataset, corpus, search_results, retriever_results,
                random_results, main_results, other_results>>

\* run_experiments, one iteration of the loop: context, prompt, generation,
\* grading, append, and the checkpoint when the count is a multiple of
\* save_every.  The first exception raised ends the run.
ProcessExample ==
    /\ pc = "Running"
    /\ Len(results) < Len(dataset[1])
    /\ LET example == dataset[1][Len(results) + 1]
           only_query == config.experiment_type = "only_query"
           got == get_documents(Self, example)
           docs == IF only_query THEN None ELSE Some(got.value)
           built == build_prompt(config, example.question, docs)
       IN  /\ documents' = IF only_query THEN None ELSE Some(got)
           /\ calls' = IF only_query THEN calls
                       ELSE Append(calls, call_record(example, documents'[1]))
           /\ IF ~only_query /\ ~got.ok
              THEN /\ Propagate(got.exc)
                   /\ UNCHANGED gen_calls
              ELSE IF ~built.ok
              THEN /\ Propagate(built.exc)
                   /\ UNCHANGED gen_calls
              ELSE \E out \in LLMOutcomes(built.value) :
                     /\ gen_calls' =
                            Append(gen_calls, generate_call(config, built.value))
                     /\ IF ~out.ok
                        THEN Propagate(out.exc)
                        ELSE LET new == Append(results,
                                            result_record(config, example, docs,
                                                          built.value, out.value))
                                 suffix == "intermediate_" \o Str(Len(new))
                             IN  /\ results' = new
                                 /\ IF config.save_every = 0
                                    THEN /\ Fail("ZeroDivisionError")
                                         /\ UNCHANGED <<files, writes>>
                                    ELSE IF PyMod(Len(new), config.save_every) = 0
                                    THEN /\ files' = save_results(config, files,
                                                                  new, suffix)
                                         /\ writes' =
                                                Append(writes,
                                                       results_filename(config,
                                                                        suffix))
                                         /\ UNCHANGED <<pc, error>>
                                    ELSE UNCHANGED <<files, writes, pc, error>>
    /\ LoadedDataKept
    /\ UNCHANGED <<retrieved_positions, stats, args, raw_response>>
    /\ UNCHANGED <<config, llm, reads, disk>>

\* variant of FinalSave: no final file when the last checkpoint already holds
\* every record
FinalSave_unlesscheckpointed ==
    /\ pc = "Running"
    /\ Len(results) = Len(dataset[1])
    /\ IF /\ results # << >>
          /\ config.save_every # 0
          /\ PyMod(Len(results), config.save_every) = 0
       THEN UNCHANGED <<files, writes>>
       ELSE /\ files' = save_results(config, files, results, "final")
            /\ writes' = Append(writes, results_filename(config, "final"))
    /\ pc' = "Completed"
    /\ UNCHANGED <<retrieved_positions, stats, args, raw_response, calls>>
    /\ UNCHANGED <<config, llm, reads, dataset, corpus, search_results,
                   retriever_results, random_results, main_results,
                   other_results, results, documents, gen_calls, disk, error>>

\* run_experiments, after the loop: self._save_results(results, "final")
FinalSave ==
    /\ pc = "Running"
    /\ Len(results) = Len(dataset[1])
    /\ files' = save_results(config, files, results, "final")
    /\ writes' = Append(writes, results_filename(config, "final"))
    /\ pc' = "Completed"
    /\ UNCHANGED <<retrieved_positions, stats, args, raw_response, calls>>
    /\ UNCHANGED <<config, llm, reads, dataset, corpus, search_results,
                   retriever_results, random_results, main_results,
                   other_results, results, documents, gen_calls, disk, error>>

Next ==
    \/ Validate
    \/ ConstructLLM
    \/ LoadData
    \/ StartRun
    \/ ProcessExample
    \/ FinalSave

Spec == Init /\ [][Next]_vars

(***************************************************************************)
(* The grading of one response on its own: llm.generate has returned for   *)
(* the example, the answer is cut out of the response and graded, and the  *)
(* record is appended.  The response is any text the decoder may return.   *)
(***************************************************************************)
ResponseHeads ==
    {"", "Question: Who said it? ", "Answer: Darth Vader.\nQuestion: Who? ",
     "### Response: none\n"}

ResponseMarkers == {"", "Answer:", "### Response:"}

ResponseTails ==
    {"", " The answer is Lando Calrissian.", "\n lando   calrissian \n",
     " NO-RES", " It was Vader, Darth."}

GradeResponses ==
    { h \o m \o t : h \in ResponseHeads, m \in ResponseMarkers,
                    t \in ResponseTails }

GradeExamples ==
    { Example("g1", "Who owns Cloud City?", a) :
        a \in { <<"Lando Calrissian">>, <<"Darth Vader">>,
                <<"Han Solo", "lando calrissian!">>, <<"The">>, << >> } }

InitGrade ==
    /\ pc = "Generated"
    /\ config = [DefaultConfig EXCEPT !.experiment_type = "only_query"]
    /\ llm = Some([llm_id |-> config.llm_id, device |-> config.device,
                   quantization_bits |-> 4,
                   model_max_length |-> config.model_max_length])
    /\ dataset \in { Some(<<e>>) : e \in GradeExamples }
    /\ raw_response \in { Some(r) : r \in GradeResponses }
    /\ calls = << >>
    /\ retrieved_positions = None
    /\ stats = None
    /\ gen_calls =
           << [prompts |->
                   << build_prompt(config, dataset[1][1].question, None).value >>,
               max_new_tokens |-> MaxNewTokens] >>
    /\ reads = {config.train_data_path}
    /\ corpus = None
    /\ search_results = None
    /\ retriever_results = None /\ random_results = None
    /\ main_results = None /\ other_results = None
    /\ results = << >>
    /\ documents = None
    /\ disk = << >>
    /\ files = << >>
    /\ writes = << >>
    /\ error = None
    /\ args = None

\* run_experiments, from the response to the append
GradeResponse ==
    /\ pc = "Generated"
    /\ results' = Append(results,
                         result_record(config, dataset[1][1], None,
                                       gen_calls[1].prompts[1],
                                       raw_response[1]))
    /\ pc' = "Graded"
    /\ UNCHANGED <<config, llm, reads, dataset, corpus, search_results,
                   retriever_results, random_results, main_results,
                   other_results, documents, gen_calls, disk, files, writes,
                   error, args, raw_response, calls,
                   retrieved_positions, stats>>

NextGrade == GradeResponse

SpecGrade == InitGrade /\ [][NextGrade]_vars

(***************************************************************************)
(* Building, saving and loading a configuration: create_config_from_args,  *)
(* ExperimentConfig.save and ExperimentConfig.from_json.  A JSON document  *)
(* is a function from keys to JSON values.                                 *)
(***************************************************************************)
JNull == [t |-> "null"]
JNumber(n) == [t |-> "number", v |-> n]
JString(str) == [t |-> "string", v |-> str]
JBool(b) == [t |-> "bool", v |-> b]

\* the fields of the dataclass, by annotation
Fields == DOMAIN DefaultConfig

OptionalIntFields ==
    {"gold_position", "num_retrieved_documents", "num_random_documents",
     "num_main_documents", "num_other_documents"}

IntFields ==
    {"model_max_length", "batch_size", "num_documents_in_context", "save_every"}

BoolFields ==
    {"load_full_corpus", "use_random", "use_adore", "use_bm25",
     "get_documents_without_answer", "put_retrieved_first",
     "use_corpus_nonsense", "put_main_first", "use_test"}

\* json.dump of one attribute value
json_dump_value(key, value) ==
    IF key \in OptionalIntFields
    THEN (IF value = None THEN JNull ELSE JNumber(value[1]))
    ELSE IF key \in IntFields THEN JNumber(value)
    ELSE IF key \in BoolFields THEN JBool(value)
    ELSE JString(value)

\* json.load of one value, as the attribute named key holds it
json_load_value(key, j) ==
    IF j.t = "null" THEN None
    ELSE IF key \in OptionalIntFields THEN Some(j.v)
    ELSE j.v

\* ExperimentConfig.from_json: cls(**config_dict) takes the fields of the
\* dataclass as keywords, with defaults, and no other keyword
from_json(d, json_path) ==
    IF json_path \notin DOMAIN d THEN Raise("FileNotFoundError")
    ELSE LET config_dict == d[json_path]
         IN  IF DOMAIN config_dict \subseteq Fields
             THEN Return([f \in Fields |->
                            IF f \in DOMAIN config_dict
                            THEN json_load_value(f, config_dict[f])
                            ELSE DefaultConfig[f]])
             ELSE Raise("TypeError")

\* ExperimentConfig.save: json.dump(self.__dict__), every attribute of the
\* object
save(cfg) == [k \in DOMAIN cfg |-> json_dump_value(k, cfg[k])]

\* the destinations of parse_args; an option not given is None
ArgNames ==
    {"output_dir", "config", "experiment_type", "llm_id", "model_max_length",
     "device", "batch_size", "load_full_corpus", "use_test", "use_random",
     "use_adore", "gold_position", "num_documents_in_context",
     "get_documents_without_answer", "use_bm25", "num_retrieved_documents",
     "num_random_documents", "put_retrieved_first", "use_corpus_nonsense",
     "num_main_documents", "num_other_documents", "put_main_first",
     "save_every"}

\* the namespace for the options given; output_dir and save_every have
\* defaults
Namespace(given) ==
    [k \in ArgNames |->
        IF k \in DOMAIN given THEN Some(given[k])
        ELSE IF k = "output_dir" THEN Some("experiment_results")
        ELSE IF k = "save_every" THEN Some(250)
        ELSE None]

create_config_from_args(a, d) ==
    LET given == { k \in DOMAIN a : a[k] # None }
        value(k) == IF k \in OptionalIntFields THEN a[k] ELSE a[k][1]
        base == from_json(d, a.config[1])
    IN  IF a.config # None
        THEN IF ~base.ok THEN base
             ELSE Return([k \in Fields \cup given |->
                             IF k \in given THEN value(k) ELSE base.value[k]])
        ELSE Return([f \in Fields |->
                        IF f \in given THEN value(f) ELSE DefaultConfig[f]])

\* the configuration documents on disk
BaseConfigPath == "configs/mixed.json"
FullConfigPath == "configs/classic_full.json"
ExtraKeyConfigPath == "configs/with_seed.json"
SavedConfigPath == "configs/saved.json"

ConfigDocuments ==
    (BaseConfigPath :>
        [experiment_type |-> JString("mixed"),
         num_retrieved_documents |-> JNumber(1),
         num_random_documents |-> JNumber(1),
         save_every |-> JNumber(2),
         output_dir |-> JString("out")])
    @@ (FullConfigPath :> save(DefaultConfig))
    @@ (ExtraKeyConfigPath :>
        [experiment_type |-> JString("classic"), seed |-> JNumber(42)])

ConfigPaths == DOMAIN ConfigDocuments \cup {"configs/absent.json"}

\* the command lines of the model
CommandLines ==
    { Namespace(c @@ t @@ g @@ n @@ r @@ e) :
        c \in {<< >>} \cup { "config" :> path : path \in ConfigPaths },
        t \in {<< >>, "experiment_type" :> "classic",
               "experiment_type" :> "only_query"},
        g \in {<< >>, "gold_position" :> 0},
        n \in {<< >>, "num_documents_in_context" :> 1},
        r \in {<< >>, "use_random" :> TRUE},
        e \in {<< >>, "save_every" :> 2} }

InitConfig ==
    /\ pc = "Parsed"
    /\ args \in { Some(a) : a \in CommandLines }
    /\ disk = ConfigDocuments
    /\ config = None
    /\ llm = None
    /\ reads = {}
    /\ dataset = None
    /\ corpus = None
    /\ search_results = None
    /\ retriever_results = None /\ random_results = None
    /\ main_results = None /\ other_results = None
    /\ results = << >>
    /\ documents = None
    /\ gen_calls = << >>
    /\ files = << >>
    /\ writes = << >>
    /\ error = None
    /\ raw_response = None
    /\ calls = << >>
    /\ retrieved_positions = None
    /\ stats = None

\* main: config = create_config_from_args(args)
CreateConfig ==
    /\ pc = "Parsed"
    /\ LET made == create_config_from_args(args[1], disk)
       IN  IF made.ok
           THEN config' = made.value /\ pc' = "Created" /\ error' = error
           ELSE config' = config /\ Fail(made.exc)
    /\ UNCHANGED <<llm, reads, dataset, corpus, search_results,
                   retriever_results, random_results, main_results,
                   other_results, results, documents, gen_calls, disk, files,
                   writes, args, raw_response, calls,
                   retrieved_positions, stats>>

\* config.save(path), on a configuration built or loaded
SaveConfig ==
    /\ pc \in {"Created", "Reloaded"}
    /\ disk' = (SavedConfigPath :> save(config)) @@ disk
    /\ pc' = "Saved"
    /\ UNCHANGED <<config, llm, reads, dataset, corpus, search_results,
                   retriever_results, random_results, main_results,
                   other_results, results, documents, gen_calls, files,
                   writes, error, args, raw_response, calls,
                   retrieved_positions, stats>>

\* config = ExperimentConfig.from_json(path), on the document saved
ReloadConfig ==
    /\ pc = "Saved"
    /\ LET loaded == from_json(disk, SavedConfigPath)
       IN  IF loaded.ok
           THEN config' = loaded.value /\ pc' = "Reloaded" /\ error' = error
           ELSE config' = config /\ Fail(loaded.exc)
    /\ UNCHANGED <<llm, reads, dataset, corpus, search_results,
                   retriever_results, random_results, main_results,
                   other_results, results, documents, gen_calls, disk, files,
                   writes, args, raw_response, calls,
                   retrieved_positions, stats>>

NextConfig ==
    \/ CreateConfig
    \/ SaveConfig
    \/ ReloadConfig

SpecConfig == InitConfig /\ [][NextConfig]_vars

(***************************************************************************)
(* The retrieval metrics: MetricsCalculator.analyze_retrieval_performance   *)
(* and ResultsAnalyzer.get_retrieval_statistics applied to a list of       *)
(* result records.  Of a record they read document_indices and             *)
(* gold_document_idx, both optional.                                       *)
(***************************************************************************)
\* result.get(key), tested for truth: the key is there and its value is
\* not 0 (gold_document_idx, an int), not empty (document_indices, a list)
get_truthy(result, key) ==
    /\ key \in DOMAIN result
    /\ IF key = "gold_document_idx" THEN result[key] # 0
                                    ELSE result[key] # << >>

\* lst.index(x): the first position of x, 0-based, or ValueError
index(lst, x) ==
    IF \E k \in 1..Len(lst) : lst[k] = x
    THEN Return((CHOOSE k \in 1..Len(lst) :
                    lst[k] = x /\ \A j \in 1..(k - 1) : lst[j] # x) - 1)
    ELSE Raise("ValueError")

\* the records the position loop looks at
is_counted(result) ==
    get_truthy(result, "gold_document_idx")
        /\ get_truthy(result, "document_indices")

\* retrieved_positions after the loop: a count per position found, and the
\* count of the key not_found (0 when the key was never touched)
RECURSIVE count_positions(_, _)
count_positions(res, acc) ==
    IF res = << >> THEN acc
    ELSE LET result == Head(res)
             pos == index(result.document_indices, result.gold_document_idx)
         IN  count_positions(Tail(res),
                 IF ~is_counted(result) THEN acc
                 ELSE IF ~pos.ok
                 THEN [acc EXCEPT !.not_found = @ + 1]
                 ELSE [acc EXCEPT !.found =
                          IF pos.value \in DOMAIN @
                          THEN [@ EXCEPT ![pos.value] = @ + 1]
                          ELSE @ @@ (pos.value :> 1)])

\* the position loop and the distribution of analyze_retrieval_performance:
\* a fraction count / total_queries is the pair <<count, total_queries>>
analyze_retrieval_performance(res) ==
    LET counted == count_positions(res, [found |-> << >>, not_found |-> 0])
        total_queries == Len(res)
    IN  [retrieved_positions |-> counted,
         retrieval_distribution |->
             [found |-> [pos \in DOMAIN counted.found |->
                            << counted.found[pos], total_queries >>],
              not_found |-> << counted.not_found, total_queries >>]]

\* stats['gold_position'] and stats['gold_not_found'] after the loop
RECURSIVE collect_positions(_, _)
collect_positions(res, acc) ==
    IF res = << >> THEN acc
    ELSE LET r == Head(res)
             pos == index(r.document_indices, r.gold_document_idx)
         IN  collect_positions(Tail(res),
                 IF ~is_counted(r) THEN acc
                 ELSE IF ~pos.ok
                 THEN [acc EXCEPT !.gold_not_found = Append(@, 1)]
                 ELSE [acc EXCEPT !.gold_position = Append(@, pos.value)])

\* the lists of get_retrieval_statistics, and the rate as the pair
\* <<found or skipped, total>> (0 over 0 when there is no record)
get_retrieval_statistics(res) ==
    LET lists == collect_positions(res, [gold_position |-> << >>,
                                         gold_not_found |-> << >>])
        total == Len(res)
    IN  [gold_position |-> lists.gold_position,
         gold_not_found |-> lists.gold_not_found,
         gold_retrieval_rate |->
             IF total > 0 THEN << total - Len(lists.gold_not_found), total >>
                          ELSE << 0, 0 >>]

\* the result records handed to the metrics: a context of up to two
\* documents, or no document_indices (only_query); a gold index in the
\* context, outside it, or none
MetricContexts ==
    UNION { [1..n -> 0..1] : n \in 0..2 }

MetricRecords ==
    { [example_id |-> "q1"] }
    \cup { [example_id |-> "q1", document_indices |-> c] :
              c \in MetricContexts }
    \cup { [example_id |-> "q1", document_indices |-> c,
            gold_document_idx |-> g] : c \in MetricContexts, g \in 0..2 }

MetricResults ==
    UNION { [1..n -> MetricRecords] : n \in 0..MaxResults }

InitMetrics ==
    /\ pc = "Results"
    /\ results \in MetricResults
    /\ config = DefaultConfig
    /\ llm = None
    /\ reads = {}
    /\ dataset = None
    /\ corpus = None
    /\ search_results = None
    /\ retriever_results = None /\ random_results = None
    /\ main_results = None /\ other_results = None
    /\ documents = None
    /\ gen_calls = << >>
    /\ disk = << >>
    /\ files = << >>
    /\ writes = << >>
    /\ error = None
    /\ args = None
    /\ raw_response = None
    /\ calls = << >>
    /\ retrieved_positions = None
    /\ stats = None

\* MetricsCalculator.analyze_retrieval_performance(results)
AnalyzeRetrievalPerformance ==
    /\ pc = "Results"
    /\ retrieved_positions' =
           Some(analyze_retrieval_performance(results).retrieved_positions)
    /\ pc' = "Analyzed"
    /\ UNCHANGED <<config, llm, reads, dataset, corpus, search_results,
                   retriever_results, random_results, main_results,
                   other_results, results, documents, gen_calls, disk, files,
                   writes, error, args, raw_response, calls, stats>>

\* ResultsAnalyzer.get_retrieval_statistics(results)
GetRetrievalStatistics ==
    /\ pc = "Results"
    /\ stats' = Some(get_retrieval_statistics(results))
    /\ pc' = "Statistics"
    /\ UNCHANGED <<config, llm, reads, dataset, corpus, search_results,
                   retriever_results, random_results, main_results,
                   other_results, results, documents, gen_calls, disk, files,
                   writes, error, args, raw_response, calls,
                   retrieved_positions>>

NextMetrics ==
    \/ AnalyzeRetrievalPerformance
    \/ GetRetrievalStatistics

SpecMetrics == InitMetrics /\ [][NextMetrics]_vars

(***************************************************************************)
(* Properties of the context assembler (specification SpecAsm).            *)
(***************************************************************************)
Assembled == pc = "Assembled"
AsmExample == dataset[1][1]
AsmOut == documents[1]
AsmType == config.experiment_type
AsmN == config.num_documents_in_context

\* the first min(count, length) entries of a ranking
FirstOf(ranking, count) == SubSeq(ranking, 1, Min(count, Len(ranking)))

\* the corpus documents an index list resolves to
DocsOf(indices) ==
    [k \in 1..Len(indices) |-> PyGetItem(corpus[1], indices[k])]

Resolvable(indices) ==
    \A k \in 1..Len(indices) : PyHasIndex(corpus[1], indices[k])

\* every entry is the index of a corpus document
InCorpus(indices) ==
    \A k \in 1..Len(indices) : indices[k] \in 0..(Len(corpus[1]) - 1)

ContainsAnswer(doc) == is_answer_in_text(doc.text, AsmExample.answers)

\* the two groups of a mixed / multi_corpus context, in the configured order
TwoGroups(first, second, firstCount, secondCount, firstFirst) ==
    IF firstFirst
    THEN FirstOf(first, firstCount) \o FirstOf(second, secondCount)
    ELSE FirstOf(second, secondCount) \o FirstOf(first, firstCount)

\* C1: in the mixed family, with non-negative counts, _get_mixed_documents
\* returns the documents of the first min(num_retrieved_documents, length)
\* retriever indices and of the first min(num_random_documents, length)
\* random indices, each group in rank order, the retrieved group first iff
\* put_retrieved_first; no document is dropped for containing a gold answer,
\* although get_documents_without_answer is set.
C1_MixedSelection ==
    (/\ Assembled /\ AsmType = "mixed"
     /\ config.num_retrieved_documents[1] >= 0
     /\ config.num_random_documents[1] >= 0)
    => LET id == AsmExample.example_id
           expected ==
               TwoGroups(retriever_results[1][id][1], random_results[1][id][1],
                         config.num_retrieved_documents[1],
                         config.num_random_documents[1],
                         config.put_retrieved_first)
       IN  IF Resolvable(expected)
           THEN AsmOut = Return(DocsOf(expected))
           ELSE ~AsmOut.ok

\* C1 witness: a mixed context, random group first, each count cut by one
\* bound (count below the length, length below the count), returned with a
\* document that contains the answer although the exclusion flag is set.
C1_Witness ==
    /\ Assembled /\ AsmType = "mixed" /\ AsmOut.ok
    /\ ~config.put_retrieved_first
    /\ config.get_documents_without_answer
    /\ config.num_retrieved_documents = Some(1)
    /\ Len(retriever_results[1][AsmExample.example_id][1]) = 2
    /\ config.num_random_documents = Some(2)
    /\ Len(random_results[1][AsmExample.example_id][1]) = 1
    /\ Len(AsmOut.value) = 2
    /\ ContainsAnswer(AsmOut.value[2])

\* the candidates that pass the answer filter, all of the spliced list walked
PassingOfWholeList ==
    LET spliced == splice_gold(search_results[1][AsmExample.example_id][1],
                               config.gold_position, AsmExample)
        keep(doc) == ~config.get_documents_without_answer \/ ~ContainsAnswer(doc)
    IN  SelectSeq(DocsOf(spliced), keep)

\* C2: in the classic family the assembler walks the whole ranked list (after
\* any gold splice) and stops only once N documents are kept or the list is
\* exhausted: the output is the first min(N, number of passing entries of the
\* whole list) passing entries.  (Stated for N >= 0 and lists whose every
\* entry is a corpus index, where the walk of the whole list raises nothing.)
C2_WalksWholeList ==
    (/\ Assembled /\ AsmType = "classic" /\ AsmN >= 0
     /\ (config.gold_position # None => HasGold(AsmExample))
     /\ InCorpus(splice_gold(search_results[1][AsmExample.example_id][1],
                             config.gold_position, AsmExample)))
    => AsmOut = Return(FirstOf(PassingOfWholeList, AsmN))

\* C3 as claimed: for classic, mixed and multi_corpus the list returned by
\* _get_documents has at most num_documents_in_context documents.  (Stated
\* for N >= 0; a negative N is below every length.)
C3_AtMostN ==
    (/\ Assembled /\ AsmType \in {"classic", "mixed", "multi_corpus"}
     /\ AsmN >= 0 /\ AsmOut.ok)
    => Len(AsmOut.value) <= AsmN

\* C3 amended: the classic context has at most num_documents_in_context
\* documents (N >= 0); the mixed and multi_corpus contexts have at most
\* num_retrieved_documents + num_random_documents (num_main_documents +
\* num_other_documents) documents, counts non-negative, whatever N is.
C3_ContextBound ==
    (Assembled /\ AsmOut.ok)
    => /\ (AsmType = "classic" /\ AsmN >= 0) => Len(AsmOut.value) <= AsmN
       /\ (/\ AsmType = "mixed"
           /\ config.num_retrieved_documents[1] >= 0
           /\ config.num_random_documents[1] >= 0)
          => Len(AsmOut.value) <= config.num_retrieved_documents[1]
                                    + config.num_random_documents[1]
       /\ (/\ AsmType = "multi_corpus"
           /\ config.num_main_documents[1] >= 0
           /\ config.num_other_documents[1] >= 0)
          => Len(AsmOut.value) <= config.num_main_documents[1]
                                    + config.num_other_documents[1]

\* C3 witness: a mixed context that reaches its bound of 2 + 1 documents
\* while num_documents_in_context is 0.
C3_Witness ==
    /\ Assembled /\ AsmType = "mixed" /\ AsmOut.ok
    /\ AsmN = 0
    /\ config.num_retrieved_documents = Some(2)
    /\ config.num_random_documents = Some(1)
    /\ Len(AsmOut.value) = 3

\* C4: in the classic family with get_documents_without_answer true, no
\* document of the assembled context contains a gold answer of the example,
\* the spliced gold document included (it is left out when its text
\* contains the answer, so the output may be shorter than N or empty).
C4_NoAnswerInContext ==
    (/\ Assembled /\ AsmType = "classic"
     /\ config.get_documents_without_answer /\ AsmOut.ok)
    => \A k \in 1..Len(AsmOut.value) : ~ContainsAnswer(AsmOut.value[k])

\* C4 witness: the gold document, spliced at the head and containing the
\* answer, is walked and left out; the context comes back empty.
C4_Witness ==
    /\ Assembled /\ AsmType = "classic" /\ AsmOut.ok
    /\ config.get_documents_without_answer
    /\ config.gold_position = Some(0) /\ AsmN = 1
    /\ HasGold(AsmExample)
    /\ ContainsAnswer(Corpus[AsmExample.idx_gold_in_corpus + 1])
    /\ Len(search_results[1][AsmExample.example_id][1]) >= 1
    /\ AsmOut.value = << >>

\* C5 as claimed: in the classic family with gold_position unset and
\* get_documents_without_answer false, the context is exactly the documents
\* of the first min(N, length of the ranking) ranked indices, in rank order.
\* (Stated for rankings whose every entry is a corpus index.)
C5_RankPrefix ==
    (/\ Assembled /\ AsmType = "classic"
     /\ config.gold_position = None
     /\ ~config.get_documents_without_answer
     /\ InCorpus(search_results[1][AsmExample.example_id][1]))
    => AsmOut = Return(DocsOf(FirstOf(
                   search_results[1][AsmExample.example_id][1], AsmN)))

\* C5 amended: for num_documents_in_context >= 0, in the classic family with
\* gold_position unset and get_documents_without_answer false, the context
\* is exactly the documents of the first min(N, length of the ranking)
\* ranked indices, in rank order; a longer N returns all ranked documents,
\* no padding and no error.
C5_RankPrefixNonNegative ==
    (/\ Assembled /\ AsmType = "classic"
     /\ config.gold_position = None
     /\ ~config.get_documents_without_answer
     /\ AsmN >= 0)
    => LET expected ==
               FirstOf(search_results[1][AsmExample.example_id][1], AsmN)
       IN  IF Resolvable(expected)
           THEN AsmOut = Return(DocsOf(expected))
           ELSE ~AsmOut.ok

\* C5 witness: ranking [2,0,1] with N = 2 gives [D2, D0].
C5_Witness ==
    /\ Assembled /\ AsmType = "classic"
    /\ config.gold_position = None
    /\ ~config.get_documents_without_answer
    /\ AsmN = 2
    /\ search_results[1][AsmExample.example_id][1] = <<2, 0, 1>>
    /\ AsmOut = Return(<<Corpus[3], Corpus[1]>>)

\* C6: in the multi_corpus family, with non-negative counts,
\* _get_multi_corpus_documents returns the documents of the first
\* min(num_main_documents, length) main indices and of the first
\* min(num_other_documents, length) other indices, each group in rank order,
\* the main group first iff put_main_first, with no answer filtering.
C6_MultiCorpusSelection ==
    (/\ Assembled /\ AsmType = "multi_corpus"
     /\ config.num_main_documents[1] >= 0
     /\ config.num_other_documents[1] >= 0)
    => LET id == AsmExample.example_id
           expected ==
               TwoGroups(main_results[1][id][1], other_results[1][id][1],
                         config.num_main_documents[1],
                         config.num_other_documents[1],
                         config.put_main_first)
       IN  IF Resolvable(expected)
           THEN AsmOut = Return(DocsOf(expected))
           ELSE ~AsmOut.ok

\* C6 witness: a multi_corpus context, main group first, with a document
\* that contains the answer although the exclusion flag is set.
C6_Witness ==
    /\ Assembled /\ AsmType = "multi_corpus" /\ AsmOut.ok
    /\ config.put_main_first
    /\ config.get_documents_without_answer
    /\ config.num_main_documents = Some(2)
    /\ Len(main_results[1][AsmExample.example_id][1]) = 2
    /\ config.num_other_documents = Some(1)
    /\ Len(other_results[1][AsmExample.example_id][1]) = 1
    /\ Len(AsmOut.value) = 3
    /\ ContainsAnswer(AsmOut.value[1])
    /\ AsmOut.value[3] # AsmOut.value[1]

(***************************************************************************)
(* Properties of the whole program (specification Spec).                   *)
(***************************************************************************)
Written == { writes[j] : j \in 1..Len(writes) }
FinalName == results_filename(config, "final")
IntermediateName(k) == results_filename(config, "intermediate_" \o Str(k))

\* C7: with save_every >= 1 and a dataset of n examples on which the loop
\* completes, exactly floor(n / save_every) intermediate files and one final
\* file are written, all under distinct names; the intermediate file written
\* after k examples holds the first k records of the returned sequence, and
\* the final file is written whatever n mod save_every is (n = 0 included)
\* and holds all n records.
C7_CheckpointFiles ==
    (pc = "Completed" /\ config.save_every >= 1) =>
        LET n == Len(dataset[1])
            s == config.save_every
            m == n \div s
        IN  /\ Len(results) = n
            /\ Len(writes) = m + 1
            /\ Cardinality(Written) = m + 1
            /\ DOMAIN files = Written
            /\ \A j \in 1..m :
                  /\ writes[j] = IntermediateName(j * s)
                  /\ files[writes[j]] = SubSeq(results, 1, j * s)
            /\ writes[m + 1] = FinalName
            /\ files[FinalName] = results

\* save_every = 2 and five examples: three files, after 2, after 4, final
C7_Witness ==
    /\ pc = "Completed"
    /\ config.save_every = 2
    /\ Len(dataset[1]) = 5
    /\ writes = << IntermediateName(2), IntermediateName(4), FinalName >>
    /\ Len(files[IntermediateName(4)]) = 4
    /\ Len(files[FinalName]) = 5

\* C8: when context assembly, prompt building or generation fails on example
\* k the run ends there: the step adds no record, writes no file and changes
\* no checkpoint file already written, the final file does not exist, and
\* no step follows the failure (no retry, no later example).
C8_FailurePropagates ==
    [][ /\ pc # "Failed"
        /\ (pc = "Running" /\ pc' = "Failed"
               /\ error' # Some("ZeroDivisionError"))
           => /\ results' = results
              /\ files' = files
              /\ writes' = writes
              /\ FinalName \notin DOMAIN files' ]_vars

\* the generator fails on the third of five examples, after two checkpoints
C8_Witness ==
    /\ pc = "Failed"
    /\ error = Some("RuntimeError")
    /\ Len(dataset[1]) = 5
    /\ Len(results) = 2
    /\ Len(gen_calls) = 3
    /\ writes = << IntermediateName(1), IntermediateName(2) >>
    /\ files[IntermediateName(2)] = results
    /\ FinalName \notin DOMAIN files

\* C9: a configuration that validate() rejects is refused before the text
\* generator is constructed and before any data file is read; it never
\* reaches the run loop, so no generation call and no result file write
\* happens for it.
C9_InvalidRejectedEarly ==
    ~validate(config).ok =>
        /\ pc \in {"Initializing", "Failed"}
        /\ pc = "Failed" => error = Some("ValueError")
        /\ llm = None
        /\ reads = {}
        /\ dataset = None /\ corpus = None
        /\ gen_calls = << >>
        /\ results = << >>
        /\ writes = << >>
        /\ files = << >>

\* a mixed configuration without the random count has been rejected
C9_Witness ==
    /\ pc = "Failed"
    /\ error = Some("ValueError")
    /\ config.experiment_type = "mixed"
    /\ config.num_retrieved_documents = Some(1)
    /\ config.num_random_documents = None
    /\ llm = None
    /\ reads = {}

KnownType ==
    config.experiment_type \in {"classic", "mixed", "multi_corpus", "only_query"}

MixedUnset ==
    /\ config.experiment_type = "mixed"
    /\ \/ config.num_retrieved_documents = None
       \/ config.num_random_documents = None

MultiUnset ==
    /\ config.experiment_type = "multi_corpus"
    /\ \/ config.num_main_documents = None
       \/ config.num_other_documents = None

\* C11: for a known family, validate() fails with ValueError exactly when the
\* family is mixed with num_retrieved_documents or num_random_documents unset,
\* or multi_corpus with num_main_documents or num_other_documents unset;
\* classic and only_query need no count, and a family does not need the
\* counts of the other family.
C11_CountsRequired ==
    (KnownType /\ pc # "Initializing") =>
        ((pc = "Failed" /\ error = Some("ValueError"))
            <=> (MixedUnset \/ MultiUnset))

\* a multi_corpus configuration without the other count has been rejected
C11_Witness ==
    /\ pc = "Failed"
    /\ error = Some("ValueError")
    /\ config.experiment_type = "multi_corpus"
    /\ config.num_main_documents = Some(1)
    /\ config.num_other_documents = None
    /\ config.num_retrieved_documents = None

(***************************************************************************)
(* Properties of the grading of a response (specification SpecGrade).      *)
(***************************************************************************)
Graded == pc = "Graded"
GradedRecord == results[1]

\* needle occurs in haystack as a contiguous run of characters
IsSubstring(needle, haystack) ==
    \E i \in 1..(Len(haystack) - Len(needle) + 1) :
        SubSeq(haystack, i, i + Len(needle) - 1) = needle

MatchIffSubstring ==
    GradedRecord.ans_match_after_norm
        <=> \E k \in 1..Len(GradedRecord.answers) :
                IsSubstring(normalize_answer(GradedRecord.answers[k]),
                            normalize_answer(GradedRecord.generated_answer))

\* C12: ans_match_after_norm of the record is true iff at least one gold
\* answer, normalized, is a substring of the normalized generated answer;
\* it is false for "The answer is Lando Calrissian." against "Darth Vader".
C12_MatchAfterNorm ==
    Graded =>
        /\ MatchIffSubstring
        /\ (/\ GradedRecord.generated_answer = "The answer is Lando Calrissian."
            /\ GradedRecord.answers = <<"Darth Vader">>)
           => ~GradedRecord.ans_match_after_norm

\* the generated answer "The answer is Lando Calrissian." matches the gold
\* answer "Lando Calrissian"
C12_Witness ==
    /\ Graded
    /\ GradedRecord.generated_answer = "The answer is Lando Calrissian."
    /\ GradedRecord.answers = <<"Lando Calrissian">>
    /\ GradedRecord.ans_match_after_norm

\* the 0-based index of the last occurrence of sub in str, -1 if none
LastIndexOf(str, sub) ==
    LET at == { i \in 1..(Len(str) - Len(sub) + 1) :
                    SubSeq(str, i, i + Len(sub) - 1) = sub }
    IN  IF at = {} THEN -1
        ELSE (CHOOSE i \in at : \A j \in at : j <= i) - 1

\* the marker the extraction uses for a response, None if it holds neither
MarkerOf(text) ==
    IF IsSubstring("Answer:", text) THEN Some("Answer:")
    ELSE IF IsSubstring("### Response:", text) THEN Some("### Response:")
    ELSE None

\* C13: the generated answer is the text of the response that follows the
\* last occurrence of the answer marker, stripped.
C13_AfterLastMarker ==
    (Graded /\ MarkerOf(raw_response[1]) # None) =>
        LET marker == MarkerOf(raw_response[1])[1]
            from == LastIndexOf(raw_response[1], marker) + Len(marker)
        IN  GradedRecord.generated_answer
                = strip(SubSeq(raw_response[1], from + 1, Len(raw_response[1])))

\* C14: when the response holds neither "Answer:" nor "### Response:", the
\* generated answer of the record is the empty string.
C14_NoMarkerEmpty ==
    (Graded /\ MarkerOf(raw_response[1]) = None) =>
        GradedRecord.generated_answer = ""

(***************************************************************************)
(* Properties of the run loop on assembled contexts (specification Spec).  *)
(***************************************************************************)
ContextAssembled == documents # None /\ documents[1].ok
NonEmptyContext == ContextAssembled /\ documents[1].value # << >>

\* C15: for an example whose assembled context is non-empty the prompt is
\* built, with a documents block, and handed to the generator: prompt
\* construction does not fail on an assembled context.
C15_PromptFromContext ==
    NonEmptyContext =>
        /\ ~(pc = "Failed" /\ error = Some("TypeError"))
        /\ gen_calls # << >>
        /\ IsSubstring("\nDocuments:\n", gen_calls[Len(gen_calls)].prompts[1])

OnlyQuery == config.experiment_type = "only_query"

\* C16: in an only_query run no context is assembled and neither a corpus
\* nor a retrieval table is loaded or read; every prompt is without
\* documents section and no record has document_indices or
\* ans_in_documents.
C16_OnlyQueryNoDocuments ==
    OnlyQuery =>
        /\ documents = None
        /\ corpus = None
        /\ search_results = None
        /\ retriever_results = None /\ random_results = None
        /\ main_results = None /\ other_results = None
        /\ reads \subseteq {config.train_data_path, config.test_data_path}
        /\ \A i \in 1..Len(gen_calls) :
              ~IsSubstring("Documents:", gen_calls[i].prompts[1])
        /\ \A i \in 1..Len(results) :
              /\ "document_indices" \notin DOMAIN results[i]
              /\ "ans_in_documents" \notin DOMAIN results[i]
              /\ results[i].prompt = gen_calls[i].prompts[1]

\* an only_query run of five examples has completed
C16_Witness ==
    /\ OnlyQuery
    /\ pc = "Completed"
    /\ Len(results) = 5
    /\ reads = {config.train_data_path}
    /\ DOMAIN results[5] =
           {"example_id", "query", "answers", "prompt", "generated_answer",
            "ans_match_after_norm"}

(***************************************************************************)
(* Index resolution of the context assembler (specification SpecAsm).      *)
(***************************************************************************)
\* the configuration selects by non-negative counts, without gold splice
PlainSelection ==
    CASE AsmType = "classic" -> config.gold_position = None /\ AsmN >= 0
      [] AsmType = "mixed" ->
            /\ config.num_retrieved_documents[1] >= 0
            /\ config.num_random_documents[1] >= 0
      [] OTHER ->
            /\ config.num_main_documents[1] >= 0
            /\ config.num_other_documents[1] >= 0

\* the indices the configuration selects for the context of the example
SelectedIndices ==
    LET id == AsmExample.example_id
    IN  CASE AsmType = "classic" -> FirstOf(search_results[1][id][1], AsmN)
          [] AsmType = "mixed" ->
                TwoGroups(retriever_results[1][id][1], random_results[1][id][1],
                          config.num_retrieved_documents[1],
                          config.num_random_documents[1],
                          config.put_retrieved_first)
          [] OTHER ->
                TwoGroups(main_results[1][id][1], other_results[1][id][1],
                          config.num_main_documents[1],
                          config.num_other_documents[1],
                          config.put_main_first)

\* C17: when a selected index is not an index of the loaded corpus (below 0,
\* or at or beyond the corpus length) context assembly fails with a lookup
\* error; no document is substituted for it.
C17_OutOfRangeFails ==
    (Assembled /\ PlainSelection /\ ~InCorpus(SelectedIndices)) =>
        /\ ~AsmOut.ok
        /\ AsmOut.exc \in {"IndexError", "KeyError"}

(***************************************************************************)
(* Result filenames across configurations (specification Spec).            *)
(***************************************************************************)
\* the experiment settings of a configuration: family, document counts, gold
\* position, ordering flags, answer exclusion, retriever and corpus choice
SettingsOf(cfg) ==
    [experiment_type |-> cfg.experiment_type,
     num_documents_in_context |-> cfg.num_documents_in_context,
     gold_position |-> cfg.gold_position,
     get_documents_without_answer |-> cfg.get_documents_without_answer,
     num_retrieved_documents |-> cfg.num_retrieved_documents,
     num_random_documents |-> cfg.num_random_documents,
     put_retrieved_first |-> cfg.put_retrieved_first,
     num_main_documents |-> cfg.num_main_documents,
     num_other_documents |-> cfg.num_other_documents,
     put_main_first |-> cfg.put_main_first,
     use_random |-> cfg.use_random,
     use_adore |-> cfg.use_adore,
     use_bm25 |-> cfg.use_bm25,
     use_corpus_nonsense |-> cfg.use_corpus_nonsense]

\* C18: no valid configuration with other experiment settings and the same
\* output directory gets, for the same suffix, the name of a file this run
\* has written: a run never overwrites the results of a differently
\* configured run.
C18_FilenameDeterminesSettings ==
    pc = "Completed" =>
        \A other \in MainConfigs :
            (/\ validate(other).ok
             /\ other.output_dir = config.output_dir
             /\ SettingsOf(other) # SettingsOf(config))
            => results_filename(other, "final") # writes[Len(writes)]

(***************************************************************************)
(* Properties of configuration loading and saving (specification           *)
(* SpecConfig).                                                            *)
(***************************************************************************)
\* the command line names a configuration document that is on disk and
\* holds a key which is no field of the dataclass
LoadsUnknownKey ==
    /\ args[1].config # None
    /\ args[1].config[1] \in DOMAIN ConfigDocuments
    /\ ~(DOMAIN ConfigDocuments[args[1].config[1]] \subseteq Fields)

\* C19: loading a configuration from a document that holds a key which is
\* not a configuration field is rejected with the error kind of a validate()
\* failure (ValueError), and no configuration object is produced.
C19_UnknownKeyRejected ==
    (LoadsUnknownKey /\ pc # "Parsed") =>
        /\ pc = "Failed"
        /\ error = Some("ValueError")
        /\ config = None

\* C20: save() followed by from_json() on the written document succeeds and
\* yields a configuration equal to the one saved.
C20_RoundTrip ==
    [][ pc = "Saved" => (pc' = "Reloaded" /\ config' = config) ]_vars

\* the flag of a field was not on the command line: the namespace holds None
\* for it, or the default of the two flags that have one
FlagAbsent(f) ==
    \/ f \notin ArgNames
    \/ args[1][f] = None
    \/ f = "output_dir" /\ args[1][f] = Some("experiment_results")
    \/ f = "save_every" /\ args[1][f] = Some(250)

\* the configuration before any flag is applied: the one the --config file
\* gives, the dataclass defaults without --config
ConfigBeforeFlags ==
    IF args[1].config = None THEN DefaultConfig
    ELSE from_json(ConfigDocuments, args[1].config[1]).value

\* C21: a flag that is absent from the command line leaves the value of its
\* field in place (the dataclass default, or the value of the --config
\* file), for every field, output_dir and save_every included.
C21_AbsentFlagsKeep ==
    pc = "Created" =>
        \A f \in Fields :
            FlagAbsent(f) => config[f] = ConfigBeforeFlags[f]

\* a ranking with one entry put in after its first min(p, length) entries
InsertedAt(ranked, p, entry) ==
    LET m == Min(p, Len(ranked))
    IN  [k \in 1..(Len(ranked) + 1) |->
            IF k <= m THEN ranked[k]
            ELSE IF k = m + 1 THEN entry ELSE ranked[k - 1]]

\* a classic assembly of an example with a gold index, gold_position >= 0
GoldSpliced ==
    /\ AsmType = "classic"
    /\ config.gold_position # None
    /\ config.gold_position[1] >= 0
    /\ HasGold(AsmExample)

\* C22: in the classic family with gold_position = p >= 0 the gold index is
\* inserted into the ranked list: the spliced list has one more entry than
\* the ranking, the gold index at position min(p, length), and the original
\* entries in their order, those from p on shifted right by one; without
\* the filter the context is the first num_documents_in_context documents
\* of that list, and the stored ranking is unchanged by the assembly.
C22_GoldInserted ==
    [][(pc = "Ready" /\ GoldSpliced)
       => LET ranked == search_results[1][AsmExample.example_id][1]
              p == config.gold_position[1]
              gold == AsmExample.idx_gold_in_corpus
              spliced == splice_gold(ranked, config.gold_position, AsmExample)
          IN  /\ Len(spliced) = Len(ranked) + 1
              /\ spliced[Min(p, Len(ranked)) + 1] = gold
              /\ spliced = InsertedAt(ranked, p, gold)
              /\ (~config.get_documents_without_answer /\ AsmN >= 0
                  /\ Resolvable(FirstOf(spliced, AsmN)))
                    => documents'[1] =
                           Return(DocsOf(FirstOf(InsertedAt(ranked, p, gold),
                                                 AsmN)))
              /\ search_results' = search_results]_vars

\* C22 witness: gold position 1 in a ranking of three other entries; the
\* context of two documents holds the first ranked document and then the
\* gold one, and the ranking still has its three entries.
C22_Witness ==
    /\ Assembled /\ GoldSpliced /\ AsmOut.ok
    /\ config.gold_position = Some(1)
    /\ ~config.get_documents_without_answer
    /\ AsmN = 2
    /\ LET ranked == search_results[1][AsmExample.example_id][1]
       IN  /\ Len(ranked) = 3
           /\ \A k \in 1..3 : ranked[k] # AsmExample.idx_gold_in_corpus
           /\ Len(AsmOut.value) = 2
           /\ AsmOut.value[1].full_corpus_idx = ranked[1]
           /\ AsmOut.value[2].full_corpus_idx = AsmExample.idx_gold_in_corpus

\* record i of a result sequence is the record of dataset entry i
AlignedWith(res, data) ==
    /\ Len(res) <= Len(data)
    /\ \A i \in 1..Len(res) :
          /\ res[i].example_id = data[i].example_id
          /\ res[i].query = data[i].question
          /\ res[i].answers = data[i].answers

\* C23: during run_experiments the result sequence is append-only and
\* aligned with the dataset: a step of the loop (an iteration with its
\* checkpoint write, or the final write) appends at most one record, leaves
\* every record already appended as it was, and record i carries the
\* example_id, question and answers of dataset entry i.
C23_AppendOnlyAligned ==
    [][pc = "Running"
       => /\ Len(results') \in {Len(results), Len(results) + 1}
          /\ SubSeq(results', 1, Len(results)) = results
          /\ AlignedWith(results', dataset[1])
          /\ (pc' \in {"Running", "Completed"} /\ gen_calls' # gen_calls)
                => Len(results') = Len(gen_calls')]_vars

\* C23 witness: three records appended, the checkpoint after the second one
\* written, the run still going on.
C23_Witness ==
    /\ pc = "Running"
    /\ Len(results) = 3
    /\ Len(dataset[1]) > 3
    /\ config.save_every = 2
    /\ Len(writes) = 1
    /\ results[3].example_id = "q3"

\* the generator returned a response for the context last assembled
ContextAnswered ==
    ContextAssembled /\ ~(pc = "Failed" /\ error = Some("RuntimeError"))

\* C24: the record of an example whose context was assembled lists the
\* full_corpus_idx of the context documents in context order, carries
\* ans_in_documents exactly when the context holds documents, and its value
\* is then true iff some context document contains some gold answer.
C24_RecordOfContext ==
    ContextAnswered =>
        /\ results # << >>
        /\ LET ctx == documents[1].value
               rec == results[Len(results)]
               example == dataset[1][Len(results)]
           IN  /\ "document_indices" \in DOMAIN rec
               /\ rec.document_indices =
                      [k \in 1..Len(ctx) |-> ctx[k].full_corpus_idx]
               /\ ("ans_in_documents" \in DOMAIN rec) <=> (ctx # << >>)
               /\ ctx # << >> =>
                      (rec.ans_in_documents <=>
                          \E k \in 1..Len(ctx) :
                              is_answer_in_text(ctx[k].text, example.answers))

\* C25: in a classic, mixed or multi_corpus run every prompt handed to the
\* generator is the extraction prompt with a documents section, never the
\* prompt that asks for an answer from internal knowledge, also when the
\* assembled context is empty.
C25_ExtractionPromptOutsideOnlyQuery ==
    ~OnlyQuery =>
        \A i \in 1..Len(gen_calls) :
            LET prompt == gen_calls[i].prompts[1]
            IN  /\ IsSubstring(TaskInstruction, prompt)
                /\ IsSubstring("\nDocuments:\n", prompt)
                /\ ~IsSubstring("internal knowledge", prompt)

(***************************************************************************)
(* Properties of repeated assembly (specification SpecCalls).              *)
(***************************************************************************)
\* C26: context assembly is idempotent and independent of history: two
\* _get_documents calls on the same example under the same configuration
\* return the same ordered document list, whatever calls on this or on
\* other examples were made in between; what the last call returned is what
\* one more call on its example would return.
C26_AssemblyRepeatable ==
    /\ \A i, j \in 1..Len(calls) :
          calls[i].example_id = calls[j].example_id
              => calls[i].returned = calls[j].returned
    /\ calls # << >> =>
          \E k \in 1..Len(dataset[1]) :
              /\ dataset[1][k].example_id = calls[Len(calls)].example_id
              /\ calls[Len(calls)].returned = get_documents(Self, dataset[1][k])

\* C26 witness: a classic context with the gold document spliced in front,
\* assembled for the first example, then one for the second example, then
\* again for the first one, with the two documents of the first call.
C26_Witness ==
    /\ Len(calls) = 3
    /\ config.experiment_type = "classic"
    /\ config.gold_position = Some(0)
    /\ calls[1].example_id = "q1"
    /\ calls[2].example_id = "q2"
    /\ calls[3].example_id = "q1"
    /\ calls[1].returned.ok
    /\ Len(calls[1].returned.value) = 2
    /\ calls[2].returned.ok
    /\ calls[2].returned # calls[1].returned
    /\ calls[3].returned = calls[1].returned

(***************************************************************************)
(* Properties of the loaded data during the run (specification Spec).      *)
(***************************************************************************)
\* C27: once loading has succeeded, no step of the run (context assembly
\* with gold splice and count slicing, prompt build, grading, checkpoint and
\* final write) changes the dataset, the corpus or a retrieval table.
C27_LoadedDataUnchanged ==
    [][(pc = "Ready" \/ pc = "Running")
       => (/\ dataset' = dataset
           /\ corpus' = corpus
           /\ search_results' = search_results
           /\ retriever_results' = retriever_results
           /\ random_results' = random_results
           /\ main_results' = main_results
           /\ other_results' = other_results)]_vars

\* C27 witness: a classic run with the gold index spliced at position 0 has
\* assembled the context of its second example, graded the first one and
\* written a checkpoint; the baseline table is the one that was loaded.
C27_Witness ==
    /\ pc = "Running"
    /\ config.experiment_type = "classic"
    /\ config.gold_position = Some(0)
    /\ config.num_documents_in_context = 1
    /\ ~config.use_random /\ ~config.use_adore
    /\ Len(calls) >= 2
    /\ Len(results) >= 2
    /\ writes # << >>
    /\ search_results = Some(disk[config.contriever_results_path])
    /\ dataset = Some(disk[config.train_data_path])
    /\ corpus = Some(Corpus)

(***************************************************************************)
(* Properties of the generator calls (specification Spec).                 *)
(***************************************************************************)
\* the prompt of an example as it is built when batch_size has its default
PromptRegardlessOfBatch(example, got) ==
    build_prompt([config EXCEPT !.batch_size = DefaultConfig.batch_size],
                 example.question,
                 IF got = None THEN None ELSE Some(got[1].value)).value

\* C28: run_experiments calls the generator once per example, in dataset
\* order: a call is made only when every earlier call has its record
\* appended, it is for the next dataset entry, with a single prompt (the
\* one built for that entry, whatever batch_size is) and 15 new tokens;
\* a run that completes has made as many calls as the dataset has entries.
C28_OneCallPerExample ==
    [][/\ gen_calls' # gen_calls
          => /\ pc = "Running"
             /\ Len(gen_calls) = Len(results)
             /\ Len(gen_calls') = Len(gen_calls) + 1
             /\ SubSeq(gen_calls', 1, Len(gen_calls)) = gen_calls
             /\ LET call == gen_calls'[Len(gen_calls')]
                    example == dataset[1][Len(gen_calls')]
                IN  /\ Len(call.prompts) = 1
                    /\ call.max_new_tokens = 15
                    /\ call.prompts[1]
                           = PromptRegardlessOfBatch(example, documents')
       /\ pc' = "Completed" => Len(gen_calls') = Len(dataset[1])
      ]_vars

\* C28 witness: a run with batch_size = 2 over five examples has completed
\* with five calls of one prompt each, the second for the second question.
C28_Witness ==
    /\ pc = "Completed"
    /\ config.batch_size = 2
    /\ Len(dataset[1]) = 5
    /\ Len(gen_calls) = 5
    /\ \A i \in 1..5 : Len(gen_calls[i].prompts) = 1
    /\ IsSubstring(dataset[1][2].question, gen_calls[2].prompts[1])
    /\ ~IsSubstring(dataset[1][1].question, gen_calls[2].prompts[1])

(***************************************************************************)
(* Properties of the data loading step (specification Spec).               *)
(***************************************************************************)
LoadingSucceeded == pc \in {"Ready", "Running", "Completed"}

\* the retrieval tables the assembler of the family reads, by attribute
TablesRead ==
    LET retriever == IF config.use_bm25 THEN config.bm25_results_path
                                        ELSE config.contriever_results_path
    IN  CASE config.experiment_type = "classic" ->
                 [search_results |->
                     IF config.use_random THEN config.random_results_path
                     ELSE IF config.use_adore THEN config.adore_results_path
                     ELSE config.contriever_results_path]
          [] config.experiment_type = "mixed" ->
                 [retriever_results |-> retriever,
                  random_results |-> config.random_results_path]
          [] config.experiment_type = "multi_corpus" ->
                 [main_results |-> retriever,
                  other_results |->
                     IF config.use_corpus_nonsense
                     THEN config.nonsense_results_path
                     ELSE config.reddit_results_path]
          [] OTHER -> << >>

TableHeld(attr, value) ==
    IF attr \in DOMAIN TablesRead THEN value = Some(disk[TablesRead[attr]])
                                  ELSE value = None

\* C29: once loading has succeeded for a validated configuration, the
\* manager holds exactly the retrieval tables the assembler of its family
\* reads (classic: the random ranking if use_random, else the alternate
\* ranker's if use_adore, else the baseline; mixed: a retriever and the
\* random ranking; multi_corpus: a main and an other-corpus ranking), with
\* the corpus, and no _get_documents call fails on an attribute that was
\* not loaded.
C29_LoadsWhatAssemblerReads ==
    /\ LoadingSucceeded =>
          /\ TableHeld("search_results", search_results)
          /\ TableHeld("retriever_results", retriever_results)
          /\ TableHeld("random_results", random_results)
          /\ TableHeld("main_results", main_results)
          /\ TableHeld("other_results", other_results)
          /\ (corpus # None) <=> ~OnlyQuery
          /\ { TablesRead[a] : a \in DOMAIN TablesRead } \subseteq reads
    /\ \A i \in 1..Len(calls) :
          calls[i].returned.ok \/ calls[i].returned.exc # "AttributeError"
    /\ error # Some("AttributeError")

\* C29 witness: a classic run with use_random and use_adore both set holds
\* the random ranking, which differs from the alternate ranker's, and has
\* assembled a context from it.
C29_Witness ==
    /\ pc = "Running"
    /\ config.experiment_type = "classic"
    /\ config.use_random /\ config.use_adore
    /\ search_results = Some(disk[config.random_results_path])
    /\ search_results # Some(disk[config.adore_results_path])
    /\ calls # << >>
    /\ calls[1].returned.ok

(***************************************************************************)
(* Properties of the retrieval metrics (specification SpecMetrics).        *)
(***************************************************************************)
\* the records that have a gold_document_idx and a non-empty
\* document_indices
WithGoldAndContext ==
    { i \in 1..Len(results) :
        /\ "gold_document_idx" \in DOMAIN results[i]
        /\ "document_indices" \in DOMAIN results[i]
        /\ results[i].document_indices # << >> }

\* the gold index of record i is in its context, first at 0-based position p
GoldFirstAt(i, p) ==
    /\ p + 1 \in DOMAIN results[i].document_indices
    /\ results[i].document_indices[p + 1] = results[i].gold_document_idx
    /\ \A k \in 1..p :
          results[i].document_indices[k] # results[i].gold_document_idx

GoldMissing(i) ==
    \A k \in DOMAIN results[i].document_indices :
        results[i].document_indices[k] # results[i].gold_document_idx

CountAt(buckets, p) == IF p \in DOMAIN buckets THEN buckets[p] ELSE 0

\* C30: every record with a gold_document_idx and a non-empty
\* document_indices is counted in exactly one bucket, the first position of
\* the gold index in document_indices or not_found, for every gold index
\* value (0 included): each bucket holds the number of such records it
\* stands for, in analyze_retrieval_performance and in
\* get_retrieval_statistics.
C30_EveryGoldRecordCounted ==
    /\ pc = "Analyzed" =>
          /\ \A p \in 0..1 :
                CountAt(retrieved_positions[1].found, p)
                    = Cardinality({ i \in WithGoldAndContext : GoldFirstAt(i, p) })
          /\ retrieved_positions[1].not_found
                 = Cardinality({ i \in WithGoldAndContext : GoldMissing(i) })
    /\ pc = "Statistics" =>
          Len(stats[1].gold_position) + Len(stats[1].gold_not_found)
              = Cardinality(WithGoldAndContext)

====
